---------------------------- MODULE Spec2Model ----------------------------
(***************************************************************************)
(* Citation-metadata enrichment of indexed chunks                          *)
(* (src/pinecone/enrich_chunk_metadata.py).                                *)
(* With it: company detection and company-filtered retrieval                *)
(* (src/src/retrieval_graph/graph.py, tools.py) and section extraction     *)
(* with a progress cache (src/src/retrieval_graph/section_graph.py).       *)
(*                                                                         *)
(* Text is a sequence of one-character strings.  A Python dict is a        *)
(* function whose domain is its set of keys; None is the dict NoneValue,   *)
(* which is falsy like the empty dict.                                     *)
(***************************************************************************)
EXTENDS Integers, Sequences, FiniteSets, TLC

VARIABLES
    pdf_status,         \* the source PDF: "ok", "missing" or "unreadable"
    pages,              \* page.extract_text() of each page of the source PDF
    sections_data,      \* the section table of the source file, in load order
    sections_file,      \* the section JSON of the source file: "ok" or "missing"
    fragment,           \* the fragment handed to find_fragment_in_pdf
    result,             \* what find_fragment_in_pdf returned
    lookup,             \* the last extract_page_number(clean_pdf, offset) call
    page_query,         \* the page handed to find_section_for_page
    section_info,       \* what find_section_for_page returned
    metadata,           \* stored metadata of every chunk of the index
    dry_run,            \* args.dry_run of the current run
    count,              \* -1 if args.all else args.count
    pc,                 \* where main() is
    chunks_to_process,  \* the selected chunks not yet processed, in order
    success_count,
    total_count,
    update_calls,       \* index.update calls made by the current run
    run,                \* number of runs of main() started so far
    metadata0,          \* the stored metadata when the current run started
    prev_run,           \* how the previous run ended
    report,             \* what process_chunk did with the last chunk
    run_log,            \* what process_chunk did with each chunk of the current run
    document_loads,     \* reads of the source PDF made by the current run
    section_loads,      \* load_sections_data calls made by the current run
    resource_reports,   \* messages of the current run about a resource it cannot load
    total_batches,      \* process_chunks_in_batches: number of batches
    batch_num,          \* process_chunks_in_batches: index of the current batch
    batch,              \* process_chunks_in_batches: bounds of the current batch
    batch_i,            \* process_chunks_in_batches: index in the current batch
    batch_success,      \* process_chunks_in_batches: successes of the current batch
    processed,          \* the chunks process_chunk was called on, in call order
    batch_size,         \* process_chunks_in_batches: the batch_size argument
    batch_log,          \* process_chunks_in_batches: bounds of every batch started
    chunk_returned,     \* what the last call of process_chunk returned
    raw_text,           \* a text handed to clean_text and get_longest_text_fragment
    cleanings,          \* clean_text(raw_text), then clean_text of that
    longest,            \* get_longest_text_fragment(raw_text) once it is called
    query,              \* the user query handed to detect_companies
    detections,         \* detect_companies(query) once it is called
    section_pair,       \* the section pair handed to format_section_info
    section_display,    \* format_section_info(section_pair) once it is called
    caller,             \* the function that made the retriever: "retrieve" or "industry_analysis_tool"
    company_files,      \* the company files the caller retrieves from
    search_kwargs,      \* retriever.search_kwargs
    search_kwargs0,     \* retriever.search_kwargs when make_retriever returned
    original_kwargs,    \* the local original_kwargs of the caller
    company_i,          \* index in company_files of the next company of the loop
    retrieve_pc,        \* where the caller is
    invocations,        \* the retriever.ainvoke calls made, in call order
    state_docs,         \* len(state.docs): the number of page documents of the PDF
    nosql_file,         \* content of the sections file of create_sections
    cache_file,         \* content of the progress cache of create_sections
    all_sections,       \* create_sections: the local all_sections
    processed_chunks,   \* create_sections: the local processed_chunks
    chunk_i,            \* create_sections: the loop variable i of the loop over chunks
    sections_out,           \* create_sections: the local sections
    sections_pc,        \* where create_sections is
    llm_log,            \* the chunks sent to the LLM and what it returned, in call order
    recorded,           \* the chunk ids a readable progress cache has held since its last removal
    restarts            \* number of times create_sections was started again

vars == << pdf_status, pages, sections_data, sections_file, fragment, result, lookup, page_query,
           section_info, metadata, dry_run, count, pc, chunks_to_process,
           success_count, total_count, update_calls, run, metadata0,
           prev_run, report, run_log, document_loads, section_loads,
           resource_reports, total_batches, batch_num, batch, batch_i,
           batch_success, processed, batch_size, batch_log, chunk_returned, raw_text,
           cleanings, longest, query,
           detections,
           section_pair, section_display,
           caller, company_files, search_kwargs, search_kwargs0, original_kwargs, company_i, retrieve_pc, invocations,
           state_docs, nosql_file, cache_file, all_sections, processed_chunks,
           chunk_i, sections_out, sections_pc, llm_log, recorded, restarts >>

-----------------------------------------------------------------------------
(* Bounds of the model *)

MaxPages == 2
MaxFragLen == 5
MaxSections == 2
MaxStartPage == 3
MaxRuns == 2

-----------------------------------------------------------------------------
(* Python values *)

NoneValue == [none |-> TRUE]

\* dict.get(key, default)
Get(d, key, default) == IF key \in DOMAIN d THEN d[key] ELSE default

\* truth value of a dict or None
Truthy(d) == d # NoneValue /\ DOMAIN d # {}

SetMin(S) == CHOOSE x \in S : \A y \in S : x <= y
SetMax(S) == CHOOSE x \in S : \A y \in S : y <= x

-----------------------------------------------------------------------------
(* Text *)

Whitespace == {" ", "\n", "\t"}
IsSpace(c) == c \in Whitespace

Digits == {"0", "1", "2", "3", "4", "5", "6", "7", "8", "9"}
DigitChars == <<"0", "1", "2", "3", "4", "5", "6", "7", "8", "9">>
DigitValue(c) == (CHOOSE i \in 1..10 : DigitChars[i] = c) - 1

\* re.sub(r'\s+', ' ', text), from index i on: the first character of a run of
\* whitespace becomes a space and the others are dropped
CollapseFrom(text, i) ==
    LET At(k) == text[k + i - 1]
        marked == [k \in 1..(Len(text) - i + 1) |->
                      IF ~IsSpace(At(k)) THEN At(k)
                      ELSE IF k + i - 1 > 1 /\ IsSpace(text[k + i - 2]) THEN ""
                      ELSE " "]
        Kept(c) == c # ""
    IN  SelectSeq(marked, Kept)

\* str.strip()
Strip(text) ==
    LET solid == {i \in 1..Len(text) : ~IsSpace(text[i])}
    IN  IF solid = {} THEN <<>> ELSE SubSeq(text, SetMin(solid), SetMax(solid))

\* runs of whitespace left as they are
clean_text_uncollapsed(text) == Strip(text)

\* the strip left out
clean_text_unstripped(text) == CollapseFrom(text, 1)

clean_text(text) == Strip(CollapseFrom(text, 1))

\* str.rfind in place of str.find: the last occurrence
FindLast(hay, needle) ==
    LET hits == {i \in 0..(Len(hay) - Len(needle)) :
                    SubSeq(hay, i + 1, i + Len(needle)) = needle}
    IN  IF hits = {} THEN -1 ELSE SetMax(hits)

\* str.find(needle): 0-based offset of the first occurrence, -1 if none
Find(hay, needle) ==
    LET hits == {i \in 0..(Len(hay) - Len(needle)) :
                    SubSeq(hay, i + 1, i + Len(needle)) = needle}
    IN  IF hits = {} THEN -1 ELSE SetMin(hits)

\* needle in hay
Contains(hay, needle) == Find(hay, needle) # -1

\* the characters of text at the indices m..n that text has
Span(text, m, n) ==
    LET last == IF n < Len(text) THEN n ELSE Len(text)
    IN  IF m > last THEN <<>> ELSE SubSeq(text, m, last)

RECURSIVE SplitFrom(_, _, _)
\* str.split(): the maximal runs of non-whitespace, from index i on
SplitFrom(text, i, word) ==
    IF i > Len(text) THEN (IF word = <<>> THEN <<>> ELSE <<word>>)
    ELSE IF IsSpace(text[i])
         THEN (IF word = <<>> THEN <<>> ELSE <<word>>) \o SplitFrom(text, i + 1, <<>>)
         ELSE SplitFrom(text, i + 1, Append(word, text[i]))

Split(text) == SplitFrom(text, 1, <<>>)

RECURSIVE Join(_)
\* " ".join(words)
Join(words) ==
    IF words = <<>> THEN <<>>
    ELSE IF Len(words) = 1 THEN words[1]
    ELSE words[1] \o <<" ">> \o Join(Tail(words))

RECURSIVE ToStr(_)
\* str(n) for n >= 0
ToStr(n) ==
    IF n < 10 THEN <<DigitChars[n + 1]>>
    ELSE ToStr(n \div 10) \o <<DigitChars[(n % 10) + 1]>>

RECURSIVE ToInt(_)
\* int(digits)
ToInt(digits) ==
    IF digits = <<>> THEN 0
    ELSE 10 * ToInt(SubSeq(digits, 1, Len(digits) - 1)) + DigitValue(digits[Len(digits)])

-----------------------------------------------------------------------------
(* Page markers *)

MarkerPrefix == <<"-", "-", "-", " ", "P", "A", "G", "E", " ">>
MarkerSuffix == <<" ", "-", "-", "-">>

\* index of the last digit of the run of digits that starts at index i (i - 1 if none)
DigitRunEnd(text, i) ==
    LET stops == {j \in i..(Len(text) + 1) : j > Len(text) \/ text[j] \notin Digits}
    IN  SetMin(stops) - 1

\* r'--- PAGE (\d+) ---' matched at index i: the index of its last character, 0 if no match
MarkerEndAt(text, i) ==
    LET d == i + Len(MarkerPrefix)
        e == DigitRunEnd(text, d)
    IN  IF /\ Span(text, i, d - 1) = MarkerPrefix
           /\ e >= d
           /\ Span(text, e + 1, e + Len(MarkerSuffix)) = MarkerSuffix
        THEN e + Len(MarkerSuffix)
        ELSE 0

RECURSIVE FindAllMarkers(_, _)
\* re.findall(r'--- PAGE (\d+) ---', text), from index i on: the numbers, in order;
\* the search goes on after the end of each match
FindAllMarkers(text, i) ==
    LET starts == {j \in i..Len(text) : MarkerEndAt(text, j) # 0}
    IN  IF starts = {} THEN <<>>
        ELSE LET b == SetMin(starts)
                 e == MarkerEndAt(text, b)
             IN  <<ToInt(SubSeq(text, b + Len(MarkerPrefix), e - Len(MarkerSuffix)))>>
                     \o FindAllMarkers(text, e + 1)

\* the slice taken after the position instead of before it
extract_page_number_forward(text, position) ==
    LET search_text == SubSeq(text, position + 1, Len(text))
        page_matches == FindAllMarkers(search_text, 1)
    IN  IF page_matches # <<>> THEN page_matches[Len(page_matches)] ELSE 1

\* the first match taken instead of the last
extract_page_number_first(text, position) ==
    LET search_text == SubSeq(text, 1, position)
        page_matches == FindAllMarkers(search_text, 1)
    IN  IF page_matches # <<>> THEN page_matches[1] ELSE 1

extract_page_number(text, position) ==
    LET search_text == SubSeq(text, 1, position)
        page_matches == FindAllMarkers(search_text, 1)
    IN  IF page_matches # <<>> THEN page_matches[Len(page_matches)] ELSE 1

RECURSIVE FullText(_, _)
\* full_text += f"\n--- PAGE {page_num + 1} ---\n{page_text}" for the pages from page_num on
FullText(pdf_pages, page_num) ==
    IF page_num >= Len(pdf_pages) THEN <<>>
    ELSE <<"\n">> \o MarkerPrefix \o ToStr(page_num + 1) \o MarkerSuffix \o <<"\n">>
            \o pdf_pages[page_num + 1] \o FullText(pdf_pages, page_num + 1)

\* text[a:b] for 0 <= a <= b <= len(text)
Slice(text, a, b) == SubSeq(text, a + 1, b)

-----------------------------------------------------------------------------
(* Section table *)

StartPage(section) == Get(section, "start_page_number", 0)
IsSubsection(section) == Get(section, "is_subsection", FALSE)

\* the first record taken, whatever its start page
FirstByLoadOrder(sections) == sections[1]

\* max(sections, key=start_page_number): the first of the records with the largest key
MaxByStartPage(sections) ==
    LET best == SetMin({i \in 1..Len(sections) :
                          \A j \in 1..Len(sections) :
                              StartPage(sections[j]) <= StartPage(sections[i])})
    IN  sections[best]

\* the subsections taken from the whole table instead of from the candidates
find_section_unfiltered_subsections(table, page_number) ==
    IF table = <<>> THEN NoneValue
    ELSE LET AtOrBefore(s) == StartPage(s) <= page_number
             IsMain(s) == ~IsSubsection(s)
             candidate_sections == SelectSeq(table, AtOrBefore)
             main_sections == SelectSeq(candidate_sections, IsMain)
             subsections == SelectSeq(table, IsSubsection)
         IN  IF candidate_sections = <<>> THEN table[1]
             ELSE [main_section |-> IF main_sections # <<>>
                                    THEN MaxByStartPage(main_sections) ELSE NoneValue,
                   subsection   |-> IF subsections # <<>>
                                    THEN MaxByStartPage(subsections) ELSE NoneValue]

find_section_for_page(table, page_number) ==
    IF table = <<>> THEN NoneValue
    ELSE LET AtOrBefore(s) == StartPage(s) <= page_number
             IsMain(s) == ~IsSubsection(s)
             candidate_sections == SelectSeq(table, AtOrBefore)
             main_sections == SelectSeq(candidate_sections, IsMain)
             subsections == SelectSeq(candidate_sections, IsSubsection)
         IN  IF candidate_sections = <<>> THEN table[1]
             ELSE [main_section |-> IF main_sections # <<>>
                                    THEN MaxByStartPage(main_sections) ELSE NoneValue,
                   subsection   |-> IF subsections # <<>>
                                    THEN MaxByStartPage(subsections) ELSE NoneValue]

\* one side of the hierarchical display, the title always in parentheses
SectionLabelAlways(section) ==
    LET name == Get(section, "section_name", "Unknown")
        title == Get(section, "section_title", "Unknown")
    IN  name \o " (" \o title \o ")"

\* one side of the hierarchical display
SectionLabel(section) ==
    LET name == Get(section, "section_name", "Unknown")
        title == Get(section, "section_title", "Unknown")
    IN  IF name # title THEN name \o " (" \o title \o ")" ELSE name

format_section_info(info) ==
    IF ~Truthy(info) THEN "Unknown"
    ELSE LET main_section == Get(info, "main_section", NoneValue)
             subsection == Get(info, "subsection", NoneValue)
         IN  IF Truthy(main_section) /\ Truthy(subsection)
                THEN SectionLabel(main_section) \o " > " \o SectionLabel(subsection)
             ELSE IF Truthy(main_section) THEN SectionLabel(main_section)
             ELSE IF Truthy(subsection) THEN SectionLabel(subsection)
             ELSE "Unknown"

-----------------------------------------------------------------------------
(* Fragment locator *)

ExactWindow == 1000
PartialWindow == 500

\* the window of the exact match taken for every match
MatchResultWide(kind, clean_pdf, start, matched_text, window, table) ==
    LET end == start + Len(matched_text)
        page_number == extract_page_number(clean_pdf, start)
        info == IF table # <<>> /\ page_number # 0
                THEN find_section_for_page(table, page_number) ELSE NoneValue
        context_start == IF start - ExactWindow > 0 THEN start - ExactWindow ELSE 0
        context_end == IF end + ExactWindow < Len(clean_pdf) THEN end + ExactWindow ELSE Len(clean_pdf)
        base == kind @@
                [found       |-> TRUE,
                 position    |-> start,
                 page_number |-> page_number,
                 context     |-> Slice(clean_pdf, context_start, context_end),
                 before      |-> Slice(clean_pdf, context_start, start),
                 matched     |-> Slice(clean_pdf, start, end),
                 after       |-> Slice(clean_pdf, end, context_end)]
    IN  IF Truthy(info) THEN base @@ [section |-> info] ELSE base

\* the result of a match without its page number
MatchResultNoPage(kind, clean_pdf, start, matched_text, window, table) ==
    LET end == start + Len(matched_text)
        page_number == extract_page_number(clean_pdf, start)
        info == IF table # <<>> /\ page_number # 0
                THEN find_section_for_page(table, page_number) ELSE NoneValue
        context_start == IF start - window > 0 THEN start - window ELSE 0
        context_end == IF end + window < Len(clean_pdf) THEN end + window ELSE Len(clean_pdf)
        base == kind @@
                [found       |-> TRUE,
                 position    |-> start,
                 context     |-> Slice(clean_pdf, context_start, context_end),
                 before      |-> Slice(clean_pdf, context_start, start),
                 matched     |-> Slice(clean_pdf, start, end),
                 after       |-> Slice(clean_pdf, end, context_end)]
    IN  IF Truthy(info) THEN base @@ [section |-> info] ELSE base

\* the result dict of a match of `matched_text` at offset start
MatchResult(kind, clean_pdf, start, matched_text, window, table) ==
    LET end == start + Len(matched_text)
        page_number == extract_page_number(clean_pdf, start)
        info == IF table # <<>> /\ page_number # 0
                THEN find_section_for_page(table, page_number) ELSE NoneValue
        context_start == IF start - window > 0 THEN start - window ELSE 0
        context_end == IF end + window < Len(clean_pdf) THEN end + window ELSE Len(clean_pdf)
        base == kind @@
                [found       |-> TRUE,
                 position    |-> start,
                 page_number |-> page_number,
                 context     |-> Slice(clean_pdf, context_start, context_end),
                 before      |-> Slice(clean_pdf, context_start, start),
                 matched     |-> Slice(clean_pdf, start, end),
                 after       |-> Slice(clean_pdf, end, context_end)]
    IN  IF Truthy(info) THEN base @@ [section |-> info] ELSE base

\* range(1, len(words) + 1): the shortest matching prefix instead of the longest
PartialSearchShortest(words, i, clean_pdf, table) ==
    LET ks == {k \in 1..i : Contains(clean_pdf, Join(SubSeq(words, 1, k)))}
    IN  IF ks = {} THEN [found |-> FALSE]
        ELSE LET partial == Join(SubSeq(words, 1, SetMin(ks)))
             IN  MatchResult([partial_match |-> TRUE, matched_words |-> SetMin(ks)],
                             clean_pdf, Find(clean_pdf, partial), partial,
                             PartialWindow, table)

\* range(len(words), 1, -1): the one-word prefix is never tried
PartialSearchStopEarly(words, i, clean_pdf, table) ==
    LET ks == {k \in 2..i : Contains(clean_pdf, Join(SubSeq(words, 1, k)))}
    IN  IF ks = {} THEN [found |-> FALSE]
        ELSE LET partial == Join(SubSeq(words, 1, SetMax(ks)))
             IN  MatchResult([partial_match |-> TRUE, matched_words |-> SetMax(ks)],
                             clean_pdf, Find(clean_pdf, partial), partial,
                             PartialWindow, table)

\* range(len(words), -1, -1): the empty prefix is tried too, and occurs in any text
PartialSearchToZero(words, i, clean_pdf, table) ==
    LET ks == {k \in 0..i : Contains(clean_pdf, Join(SubSeq(words, 1, k)))}
        partial == Join(SubSeq(words, 1, SetMax(ks)))
    IN  MatchResult([partial_match |-> TRUE, matched_words |-> SetMax(ks)],
                    clean_pdf, Find(clean_pdf, partial), partial, PartialWindow, table)

RECURSIVE PartialSearch(_, _, _, _)
\* for i in range(len(words), 0, -1), from i on
PartialSearch(words, i, clean_pdf, table) ==
    IF i < 1 THEN [found |-> FALSE]
    ELSE LET partial == Join(SubSeq(words, 1, i))
         IN  IF Contains(clean_pdf, partial)
             THEN MatchResult([partial_match |-> TRUE, matched_words |-> i],
                              clean_pdf, Find(clean_pdf, partial), partial,
                              PartialWindow, table)
             ELSE PartialSearch(words, i - 1, clean_pdf, table)

find_fragment_in_pdf(frag, status, pdf_pages, table) ==
    IF status = "missing" THEN [found |-> FALSE, error |-> "PDF file not found"]
    ELSE IF status = "unreadable" THEN [found |-> FALSE, error |-> "PDF read error"]
    ELSE LET clean_fragment == clean_text(frag)
             clean_pdf == clean_text(FullText(pdf_pages, 0))
         IN  IF Contains(clean_pdf, clean_fragment)
             THEN MatchResult([exact_match |-> TRUE], clean_pdf,
                              Find(clean_pdf, clean_fragment), clean_fragment,
                              ExactWindow, table)
             ELSE LET words == Split(clean_fragment)
                  IN  PartialSearch(words, Len(words), clean_pdf, table)

-----------------------------------------------------------------------------
(* Fragment selector *)

\* r'<[^>]+>' matched at index i: the index of its '>', 0 if no match
TagEndAt(text, i) ==
    LET closes == {j \in (i + 1)..Len(text) : text[j] = ">"}
    IN  IF text[i] = "<" /\ closes # {} /\ SetMin(closes) >= i + 2
        THEN SetMin(closes) ELSE 0

RECURSIVE SplitOnTags(_, _, _)
\* re.split(r'<[^>]+>', text), from index i on, segment being the text since the last tag
SplitOnTags(text, i, segment) ==
    IF i > Len(text) THEN <<segment>>
    ELSE LET e == TagEndAt(text, i)
         IN  IF e = 0 THEN SplitOnTags(text, i + 1, Append(segment, text[i]))
             ELSE <<segment>> \o SplitOnTags(text, e + 1, <<>>)

RECURSIVE LongestFromLast(_, _, _)
\* >= in place of >: the last of the longest fragments
LongestFromLast(fragments, i, longest_fragment) ==
    IF i > Len(fragments) THEN longest_fragment
    ELSE LET cleaned == clean_text(fragments[i])
         IN  LongestFromLast(fragments, i + 1,
                             IF Len(cleaned) >= Len(longest_fragment)
                             THEN cleaned ELSE longest_fragment)

RECURSIVE LongestFrom(_, _, _)
\* for fragment in fragments, from index i on
LongestFrom(fragments, i, longest_fragment) ==
    IF i > Len(fragments) THEN longest_fragment
    ELSE LET cleaned == clean_text(fragments[i])
         IN  LongestFrom(fragments, i + 1,
                         IF Len(cleaned) > Len(longest_fragment)
                         THEN cleaned ELSE longest_fragment)

get_longest_text_fragment(text_with_html) ==
    LongestFrom(SplitOnTags(text_with_html, 1, <<>>), 1, <<>>)

-----------------------------------------------------------------------------
(* Company detection (src/src/retrieval_graph/graph.py) *)

UpperCase == <<"A", "B", "C", "D", "E", "F", "G", "H", "I", "J", "K", "L", "M", "N", "O", "P", "Q", "R", "S", "T", "U", "V", "W", "X", "Y", "Z">>
LowerCase == <<"a", "b", "c", "d", "e", "f", "g", "h", "i", "j", "k", "l", "m", "n", "o", "p", "q", "r", "s", "t", "u", "v", "w", "x", "y", "z">>

\* str.lower() of one character
LowerChar(c) ==
    IF \E i \in 1..26 : UpperCase[i] = c
    THEN LowerCase[CHOOSE i \in 1..26 : UpperCase[i] = c]
    ELSE c

\* str.lower()
Lower(q) == [i \in 1..Len(q) |-> LowerChar(q[i])]

\* the characters r'\w' matches
WordChars ==
    {LowerCase[i] : i \in 1..26} \cup {UpperCase[i] : i \in 1..26} \cup Digits \cup {"_"}
IsWordChar(c) == c \in WordChars

\* r'\b' between the characters p and p + 1 of q
WordBoundary(q, p) ==
    LET before == p >= 1 /\ p <= Len(q) /\ IsWordChar(q[p])
        after == p + 1 >= 1 /\ p + 1 <= Len(q) /\ IsWordChar(q[p + 1])
    IN  before # after

\* the name searched without the word boundaries
SearchSubstring(company_name, query_lower) ==
    \E i \in 0..(Len(query_lower) - Len(company_name)) :
        SubSeq(query_lower, i + 1, i + Len(company_name)) = company_name

\* re.search(r'\b' + re.escape(company_name) + r'\b', query_lower) finds a match
SearchWord(company_name, query_lower) ==
    \E i \in 0..(Len(query_lower) - Len(company_name)) :
        /\ WordBoundary(query_lower, i)
        /\ SubSeq(query_lower, i + 1, i + Len(company_name)) = company_name
        /\ WordBoundary(query_lower, i + Len(company_name))

\* the dict company_patterns, in insertion order
company_patterns ==
    << [company_name |-> <<"n", "v", "i", "d", "i", "a">>,
        file_patterns |-> <<"nvidia_10k.pdf">>],
       [company_name |-> <<"n", "v", "d", "a">>,
        file_patterns |-> <<"nvidia_10k.pdf">>],
       [company_name |-> <<"a", "m", "d">>,
        file_patterns |-> <<"amd_10k.pdf">>],
       [company_name |-> <<"i", "n", "t", "e", "l">>,
        file_patterns |-> <<"intel_10k.pdf">>],
       [company_name |-> <<"i", "n", "t", "c">>,
        file_patterns |-> <<"intel_10k.pdf">>],
       [company_name |-> <<"b", "r", "o", "a", "d", "c", "o", "m">>,
        file_patterns |-> <<"broadcom_10k.pdf">>],
       [company_name |-> <<"a", "v", "g", "o">>,
        file_patterns |-> <<"broadcom_10k.pdf">>] >>

RECURSIVE ExtendFrom(_, _)
\* the loop over company_patterns.items(), from item k on: what it appends to
\* detected_files
ExtendFrom(query_lower, k) ==
    IF k > Len(company_patterns) THEN <<>>
    ELSE (IF SearchWord(company_patterns[k].company_name, query_lower)
          THEN company_patterns[k].file_patterns ELSE <<>>)
         \o ExtendFrom(query_lower, k + 1)

\* list(dict.fromkeys(files)): the first occurrence of each element, in order
DictFromKeys(files) ==
    LET First(i) == \A j \in 1..(i - 1) : files[j] # files[i]
        kept == {i \in 1..Len(files) : First(i)}
        Nth(n) == CHOOSE i \in kept : Cardinality({j \in kept : j < i}) = n - 1
    IN  [n \in 1..Cardinality(kept) |-> files[Nth(n)]]

detect_companies(q) == DictFromKeys(ExtendFrom(Lower(q), 1))

-----------------------------------------------------------------------------
(* Enrichment orchestrator *)

EmptyDict == <<>>

\* dict update: the entries of updates, then those of d under other keys
Merge(d, updates) ==
    [k \in DOMAIN d \cup DOMAIN updates |->
        IF k \in DOMAIN updates THEN updates[k] ELSE d[k]]

\* the display field written whether or not the match result holds a section
create_metadata_always_section(res) ==
    LET page_part == IF "page_number" \in DOMAIN res
                     THEN [page_number |-> res.page_number] ELSE EmptyDict
        info == Get(res, "section", NoneValue)
    IN  Merge(page_part, [hierarchical_section |-> format_section_info(info)])

create_metadata_from_result(res) ==
    LET page_part == IF "page_number" \in DOMAIN res
                     THEN [page_number |-> res.page_number] ELSE EmptyDict
        info == Get(res, "section", NoneValue)
        main_section == Get(info, "main_section", NoneValue)
        subsection == Get(info, "subsection", NoneValue)
        display_part == IF Truthy(info)
                        THEN [hierarchical_section |-> format_section_info(info)]
                        ELSE EmptyDict
        main_part == IF Truthy(info) /\ Truthy(main_section)
                     THEN [main_section_name  |-> Get(main_section, "section_name", ""),
                           main_section_title |-> Get(main_section, "section_title", "")]
                     ELSE EmptyDict
        sub_part == IF Truthy(info) /\ Truthy(subsection)
                    THEN [subsection_name  |-> Get(subsection, "section_name", ""),
                          subsection_title |-> Get(subsection, "section_title", "")]
                    ELSE EmptyDict
    IN  Merge(Merge(Merge(page_part, display_part), main_part), sub_part)

\* load_sections_data(source_file): the sections of the JSON file of the source
\* file, the empty list when the file cannot be opened or parsed
load_sections_data(file, table) == IF file = "ok" THEN table ELSE <<>>

\* what one call of find_fragment_in_pdf loads and reports besides what it returns:
\* a missing PDF is reported before anything is loaded, the section file is loaded
\* before the PDF is read, and each resource that fails is reported by a message
NoLoads == [document_loads |-> 0, section_loads |-> 0, resource_reports |-> 0]
find_fragment_loads(status, file) ==
    IF status = "missing"
    THEN [document_loads |-> 0, section_loads |-> 0, resource_reports |-> 1]
    ELSE [document_loads |-> 1, section_loads |-> 1,
          resource_reports |-> (IF file = "ok" THEN 0 ELSE 1)
                               + (IF status = "ok" THEN 0 ELSE 1)]

\* the dry-run test left out
update_chunk_metadata_always(index_ok, metadata_updates, dry) ==
    [called |-> TRUE, success |-> index_ok]

\* the return after index.update left out, so that every live write reports failure
update_chunk_metadata_unreported(index_ok, metadata_updates, dry) ==
    IF dry THEN [called |-> FALSE, success |-> TRUE]
    ELSE [called |-> TRUE, success |-> FALSE]

\* whether index.update is called, and what is returned; index_ok is whether
\* index.update returns rather than raises
update_chunk_metadata(index_ok, metadata_updates, dry) ==
    IF dry THEN [called |-> FALSE, success |-> TRUE]
    ELSE [called |-> TRUE, success |-> index_ok]

\* the test of the selected fragment left out
process_chunk_any_fragment(chunk_metadata, index_ok, status, pdf_pages, table, dry) ==
    LET chunk_text == Get(chunk_metadata, "text", <<>>)
        longest_fragment == get_longest_text_fragment(chunk_text)
        res == find_fragment_in_pdf(longest_fragment, status, pdf_pages, table)
        metadata_updates == create_metadata_from_result(res)
        written == update_chunk_metadata(index_ok, metadata_updates, dry)
        Failed(outcome, located, updates) ==
            [success |-> FALSE, outcome |-> outcome, result |-> located,
             metadata_updates |-> updates, update_called |-> FALSE]
    IN  IF chunk_text = <<>>
        THEN Failed("Missing text in metadata", NoneValue, NoneValue)
        ELSE IF ~res.found
        THEN Failed("Could not locate fragment", res, NoneValue)
        ELSE IF metadata_updates = EmptyDict
        THEN Failed("No metadata to update", res, metadata_updates)
        ELSE [success |-> written.success,
              outcome |-> IF written.success THEN "updated" ELSE "Failed to update chunk",
              result |-> res,
              metadata_updates |-> metadata_updates,
              update_called |-> written.called]

\* what process_chunk returns and does: success is the return value, outcome the
\* message printed, update_called whether index.update was called
process_chunk(chunk_metadata, index_ok, status, pdf_pages, table, dry) ==
    LET chunk_text == Get(chunk_metadata, "text", <<>>)
        longest_fragment == get_longest_text_fragment(chunk_text)
        res == find_fragment_in_pdf(longest_fragment, status, pdf_pages, table)
        metadata_updates == create_metadata_from_result(res)
        written == update_chunk_metadata(index_ok, metadata_updates, dry)
        Failed(outcome, located, updates) ==
            [success |-> FALSE, outcome |-> outcome, result |-> located,
             metadata_updates |-> updates, update_called |-> FALSE]
    IN  IF chunk_text = <<>>
        THEN Failed("Missing text in metadata", NoneValue, NoneValue)
        ELSE IF longest_fragment = <<>>
        THEN Failed("No fragment extracted", NoneValue, NoneValue)
        ELSE IF ~res.found
        THEN Failed("Could not locate fragment", res, NoneValue)
        ELSE IF metadata_updates = EmptyDict
        THEN Failed("No metadata to update", res, metadata_updates)
        ELSE [success |-> written.success,
              outcome |-> IF written.success THEN "updated" ELSE "Failed to update chunk",
              result |-> res,
              metadata_updates |-> metadata_updates,
              update_called |-> written.called]

\* enrichment told by the section display instead of by the page number
UnenrichedBySection(all_chunks, stored) ==
    LET NoSection(id) == "hierarchical_section" \notin DOMAIN stored[id]
    IN  SelectSeq(all_chunks, NoSection)

\* the chunks that lack prior enrichment
Unenriched(all_chunks, stored) ==
    LET NoPage(id) == Get(stored[id], "page_number", 0) = 0
    IN  SelectSeq(all_chunks, NoPage)

\* the lists select_chunks_for_processing may return; random.sample draws wanted
\* distinct candidates in any order
select_chunks_for_processing(all_chunks, stored, wanted, skip_enriched) ==
    LET candidates == IF skip_enriched THEN Unenriched(all_chunks, stored) ELSE all_chunks
        k == IF wanted < Len(candidates) THEN wanted ELSE Len(candidates)
    IN  IF candidates = <<>> THEN {<<>>}
        ELSE IF wanted = -1 THEN {candidates}
        ELSE {sample \in [1..k -> {candidates[i] : i \in 1..Len(candidates)}] :
                 \A i, j \in 1..k : i # j => sample[i] # sample[j]}

-----------------------------------------------------------------------------
(* Inputs *)

FragChars == {"a", "b", " "}
Fragments == UNION {[1..n -> FragChars] : n \in 0..MaxFragLen}

PageTexts == { <<"a">>, <<"a", " ", "b">>, <<"b", "\n", "a", " ">> }
Documents == UNION {[1..n -> PageTexts] : n \in 1..MaxPages}

SectionRecords ==
    [section_name : {"Item 1", "Item 7"},
     section_title : {"Business", "Item 7"},
     start_page_number : 1..MaxStartPage,
     is_subsection : BOOLEAN]
SectionTables == UNION {[1..n -> SectionRecords] : n \in 0..MaxSections}

Part(name, title, page) ==
    [section_name |-> name, section_title |-> title,
     start_page_number |-> page, is_subsection |-> FALSE]
Sub(name, title, page) ==
    [section_name |-> name, section_title |-> title,
     start_page_number |-> page, is_subsection |-> TRUE]

\* the normalized document text of the source PDF
CleanPdf == clean_text(FullText(pages, 0))

-----------------------------------------------------------------------------
(* Values of the variables an operation does not use *)

NoLocate == fragment = <<>> /\ result = NoneValue
NoPageLookup == lookup = NoneValue
NoSectionLookup == page_query = 0 /\ section_info = NoneValue
NoRun ==
    /\ metadata = <<>>
    /\ dry_run = FALSE
    /\ count = 0
    /\ pc = "idle"
    /\ chunks_to_process = <<>>
    /\ success_count = 0
    /\ total_count = 0
    /\ update_calls = 0
    /\ run = 0
    /\ metadata0 = <<>>
    /\ prev_run = NoneValue
    /\ report = NoneValue
    /\ run_log = <<>>
    /\ document_loads = 0
    /\ section_loads = 0
    /\ resource_reports = 0

NoBatch ==
    /\ total_batches = 0
    /\ batch_num = 0
    /\ batch = NoneValue
    /\ batch_i = 0
    /\ batch_success = 0
    /\ processed = <<>>
    /\ batch_size = 0
    /\ batch_log = <<>>
    /\ chunk_returned = NoneValue

NoText == raw_text = <<>> /\ cleanings = <<>> /\ longest = <<>>

NoDetect == query = <<>> /\ detections = <<>>

NoFormat == section_pair = NoneValue /\ section_display = <<>>

NoRetrieve ==
    /\ caller = "none"
    /\ company_files = <<>>
    /\ search_kwargs = NoneValue
    /\ search_kwargs0 = NoneValue
    /\ original_kwargs = NoneValue
    /\ company_i = 0
    /\ retrieve_pc = "idle"
    /\ invocations = <<>>

NoExtract ==
    /\ state_docs = 0
    /\ nosql_file = NoneValue
    /\ cache_file = NoneValue
    /\ all_sections = <<>>
    /\ processed_chunks = {}
    /\ chunk_i = 0
    /\ sections_out = <<>>
    /\ sections_pc = "idle"
    /\ llm_log = <<>>
    /\ recorded = {}
    /\ restarts = 0

documentVars == << pdf_status, pages, sections_data, sections_file >>
locateVars == << fragment, result >>
sectionVars == << page_query, section_info >>
runVars == << metadata, dry_run, count, pc, chunks_to_process, success_count,
              total_count, update_calls, run, metadata0, prev_run, report, run_log,
              document_loads, section_loads, resource_reports >>
batchVars == << total_batches, batch_num, batch, batch_i, batch_success, processed,
               batch_size, batch_log, chunk_returned >>
textVars == << raw_text, cleanings, longest >>
detectVars == << query, detections >>
extractVars == << state_docs, nosql_file, cache_file, all_sections, processed_chunks,
                 chunk_i, sections_out, sections_pc, llm_log, recorded, restarts >>
retrieveVars == << caller, company_files, search_kwargs, search_kwargs0, original_kwargs, company_i, retrieve_pc, invocations >>
formatVars == << section_pair, section_display >>

-----------------------------------------------------------------------------
(* The fragment locator applied to a fragment and a source file *)

LocateTables == { <<>>, <<Part("Item 1", "Business", 1), Sub("Item 7", "Item 7", 2)>> }

InitLocate ==
    /\ pdf_status \in {"ok", "missing", "unreadable"}
    /\ pages \in (IF pdf_status = "ok" THEN Documents ELSE {<<>>})
    /\ sections_data \in LocateTables
    /\ sections_file = "ok"
    /\ fragment \in Fragments
    /\ result = NoneValue
    /\ NoPageLookup /\ NoSectionLookup /\ NoRun /\ NoBatch /\ NoText /\ NoDetect /\ NoFormat /\ NoRetrieve /\ NoExtract

Locate ==
    /\ result = NoneValue
    /\ result' = find_fragment_in_pdf(fragment, pdf_status, pages, sections_data)
    /\ UNCHANGED << extractVars, retrieveVars, formatVars, detectVars, textVars, batchVars,
                    documentVars, fragment, lookup, sectionVars, runVars >>

NextLocate == Locate

SpecLocate == InitLocate /\ [][NextLocate]_vars

-----------------------------------------------------------------------------
(* The fragment locator applied to documents longer than its context windows *)

MaxSlack == 1

\* text of n characters without whitespace, which no fragment occurs in
Padding(n) == [i \in 1..n |-> "x"]

\* lengths of text around the match: none, and just below and above each
\* context window
PaddingLengths ==
    {0} \cup {window + d : window \in {PartialWindow, ExactWindow},
                           d \in {0 - MaxSlack, MaxSlack}}

\* one page with "b a" between two paddings
LongDocuments ==
    { << Padding(n) \o <<" ", "b", " ", "a", " ">> \o Padding(m) >> :
         n \in PaddingLengths, m \in PaddingLengths }

ContextFragments ==
    { <<"b", " ", "a">>,                \* in the document
      <<"b", " ", "\n", "a", " ">>,     \* in the document once normalized
      <<"b", " ", "a", " ", "c">>,      \* its first two words in the document
      <<"b", " ", "c">>,                \* its first word in the document
      <<"c">> }                         \* not in the document

InitContext ==
    /\ pdf_status = "ok"
    /\ pages \in LongDocuments
    /\ sections_data = <<>>
    /\ sections_file = "ok"
    /\ fragment \in ContextFragments
    /\ result = NoneValue
    /\ NoPageLookup /\ NoSectionLookup /\ NoRun /\ NoBatch /\ NoText /\ NoDetect /\ NoFormat /\ NoRetrieve /\ NoExtract

SpecContext == InitContext /\ [][NextLocate]_vars

-----------------------------------------------------------------------------
(* The page marker index applied to an offset of a document text *)

InitPage ==
    /\ pdf_status = "ok"
    /\ pages \in Documents
    /\ sections_data = <<>>
    /\ sections_file = "ok"
    /\ NoLocate /\ NoPageLookup /\ NoSectionLookup /\ NoRun /\ NoBatch /\ NoText /\ NoDetect /\ NoFormat /\ NoRetrieve /\ NoExtract

PageLookup ==
    /\ \E position \in 0..Len(CleanPdf) :
          lookup' = [position |-> position,
                     page_number |-> extract_page_number(CleanPdf, position)]
    /\ UNCHANGED << extractVars, retrieveVars, formatVars, detectVars, textVars, batchVars,
                    documentVars, locateVars, sectionVars, runVars >>

NextPage == PageLookup

SpecPage == InitPage /\ [][NextPage]_vars

-----------------------------------------------------------------------------
(* The section table queried for a page *)

InitSection ==
    /\ pdf_status = "ok"
    /\ pages = <<>>
    /\ sections_data \in SectionTables
    /\ sections_file = "ok"
    /\ NoLocate /\ NoPageLookup /\ NoSectionLookup /\ NoRun /\ NoBatch /\ NoText /\ NoDetect /\ NoFormat /\ NoRetrieve /\ NoExtract

SectionLookup ==
    /\ \E page_number \in 1..MaxStartPage :
          /\ page_query' = page_number
          /\ section_info' = find_section_for_page(sections_data, page_number)
    /\ UNCHANGED << extractVars, retrieveVars, formatVars, detectVars, textVars, batchVars,
                    documentVars, locateVars, lookup, runVars >>

NextSection == SectionLookup

SpecSection == InitSection /\ [][NextSection]_vars

-----------------------------------------------------------------------------
(* Runs of main() over the chunks of one company *)

AllChunks == <<"c1", "c2">>
ChunkIds == {AllChunks[i] : i \in 1..Len(AllChunks)}

\* a two-page source PDF: "a b" on page 1, "b a" on page 2
RunPages == << <<"a", " ", "b">>, <<"b", "\n", "a", " ">> >>

ChunkTexts ==
    { <<>>,                                                   \* no text
      <<"<", "p", ">">>,                                      \* markup only
      <<"<", "p", ">", "a", " ", "b", "<", "/", "p", ">">>,   \* on page 1
      <<"b", " ", " ", "a">>,                                 \* on page 2
      <<"b", " ", "a", " ", "c">>,                            \* first two words on page 2
      <<"c">> }                                               \* nowhere

RunTables ==
    { <<>>,
      <<Part("Item 1", "Business", 1), Sub("Item 7", "Item 7", 2)>>,
      <<Part("Item 1", "Business", 2), Sub("Item 7", "Item 7", 2)>> }

CountArgs == {-1, 1}

InitRun ==
    /\ pdf_status \in {"ok", "missing", "unreadable"}
    /\ pages = (IF pdf_status = "ok" THEN RunPages ELSE <<>>)
    /\ sections_file \in {"ok", "missing"}
    /\ sections_data \in (IF sections_file = "ok" THEN RunTables ELSE {<<>>})
    /\ metadata \in [ChunkIds -> {[text |-> t] : t \in ChunkTexts}]
    /\ dry_run = FALSE
    /\ count = 0
    /\ pc = "idle"
    /\ chunks_to_process = <<>>
    /\ success_count = 0
    /\ total_count = 0
    /\ update_calls = 0
    /\ run = 0
    /\ metadata0 = metadata
    /\ prev_run = NoneValue
    /\ report = NoneValue
    /\ run_log = <<>>
    /\ document_loads = 0
    /\ section_loads = 0
    /\ resource_reports = 0
    /\ NoLocate /\ NoPageLookup /\ NoSectionLookup /\ NoBatch /\ NoText /\ NoDetect /\ NoFormat /\ NoRetrieve /\ NoExtract

\* main() from its start to the first chunk: parse_args, the fetch of all chunks,
\* the selection; fetched is whether get_all_chunks_from_pinecone returned chunks
main_select ==
    /\ pc \in {"idle", "returned", "summary"}
    /\ run < MaxRuns
    /\ \E dry \in BOOLEAN, wanted \in CountArgs, fetched \in BOOLEAN :
          \E selected \in select_chunks_for_processing(AllChunks, metadata, wanted, TRUE) :
              /\ dry_run' = dry
              /\ count' = wanted
              /\ chunks_to_process' = (IF fetched THEN selected ELSE <<>>)
              /\ total_count' = (IF fetched THEN Len(selected) ELSE 0)
              /\ pc' = (IF fetched /\ selected # <<>> THEN "processing" ELSE "returned")
    /\ success_count' = 0
    /\ update_calls' = 0
    /\ run' = run + 1
    /\ metadata0' = metadata
    /\ prev_run' = (IF run = 0 THEN NoneValue
                    ELSE [dry_run |-> dry_run, pc |-> pc, total_count |-> total_count,
                          success_count |-> success_count,
                          failed |-> {run_log[i].chunk : i \in {j \in 1..Len(run_log) :
                                                                  ~run_log[j].success}}])
    /\ report' = NoneValue
    /\ run_log' = <<>>
    /\ document_loads' = 0
    /\ section_loads' = 0
    /\ resource_reports' = 0
    /\ UNCHANGED << extractVars, retrieveVars, formatVars, detectVars, textVars, batchVars,
                    documentVars, locateVars, lookup, sectionVars, metadata >>

\* a chunk whose write was rejected stays first in the list and is written again
main_process_chunk_retrying ==
    /\ pc = "processing"
    /\ chunks_to_process # <<>>
    /\ \E index_ok \in BOOLEAN :
          \E chunk \in {Head(chunks_to_process)} :
          \E done \in {process_chunk(metadata[chunk], index_ok, pdf_status, pages,
                                    load_sections_data(sections_file, sections_data),
                                    dry_run)} :
          \E loaded \in {IF done.result = NoneValue THEN NoLoads
                         ELSE find_fragment_loads(pdf_status, sections_file)} :
              /\ metadata' = (IF done.update_called /\ index_ok
                              THEN [metadata EXCEPT
                                       ![chunk] = Merge(@, done.metadata_updates)]
                              ELSE metadata)
              /\ update_calls' = update_calls + (IF done.update_called THEN 1 ELSE 0)
              /\ success_count' = success_count + (IF done.success THEN 1 ELSE 0)
              /\ report' = Merge(done, [chunk |-> chunk])
              /\ chunks_to_process' = (IF done.update_called /\ ~done.success
                                        THEN chunks_to_process
                                        ELSE Tail(chunks_to_process))
              /\ run_log' = Append(run_log, [chunk |-> chunk, success |-> done.success,
                                             outcome |-> done.outcome,
                                             update_called |-> done.update_called])
              /\ document_loads' = document_loads + loaded.document_loads
              /\ section_loads' = section_loads + loaded.section_loads
              /\ resource_reports' = resource_reports + loaded.resource_reports
    /\ UNCHANGED << extractVars, retrieveVars, formatVars, detectVars, textVars, batchVars,
                    documentVars, locateVars, lookup, sectionVars, dry_run, count, pc,
                    total_count, run, metadata0, prev_run >>

\* one iteration of main()'s loop: process_chunk on the next selected chunk
main_process_chunk ==
    /\ pc = "processing"
    /\ chunks_to_process # <<>>
    /\ \E index_ok \in BOOLEAN :
          \E chunk \in {Head(chunks_to_process)} :
          \E done \in {process_chunk(metadata[chunk], index_ok, pdf_status, pages,
                                    load_sections_data(sections_file, sections_data),
                                    dry_run)} :
          \E loaded \in {IF done.result = NoneValue THEN NoLoads
                         ELSE find_fragment_loads(pdf_status, sections_file)} :
              /\ metadata' = (IF done.update_called /\ index_ok
                              THEN [metadata EXCEPT
                                       ![chunk] = Merge(@, done.metadata_updates)]
                              ELSE metadata)
              /\ update_calls' = update_calls + (IF done.update_called THEN 1 ELSE 0)
              /\ success_count' = success_count + (IF done.success THEN 1 ELSE 0)
              /\ report' = Merge(done, [chunk |-> chunk])
              /\ run_log' = Append(run_log, [chunk |-> chunk, success |-> done.success,
                                             outcome |-> done.outcome,
                                             update_called |-> done.update_called])
              /\ document_loads' = document_loads + loaded.document_loads
              /\ section_loads' = section_loads + loaded.section_loads
              /\ resource_reports' = resource_reports + loaded.resource_reports
    /\ chunks_to_process' = Tail(chunks_to_process)
    /\ UNCHANGED << extractVars, retrieveVars, formatVars, detectVars, textVars, batchVars,
                    documentVars, locateVars, lookup, sectionVars, dry_run, count, pc,
                    total_count, run, metadata0, prev_run >>

\* the final summary of main(), which divides by total_count
main_summary ==
    /\ pc = "processing"
    /\ chunks_to_process = <<>>
    /\ pc' = (IF total_count = 0 THEN "crashed" ELSE "summary")
    /\ UNCHANGED << extractVars, retrieveVars, formatVars, detectVars, textVars, batchVars,
                    documentVars, locateVars, lookup, sectionVars, metadata, dry_run,
                    count, chunks_to_process, success_count, total_count, update_calls,
                    run, metadata0, prev_run, report, run_log, document_loads,
                    section_loads, resource_reports >>

NextRun == main_select \/ main_process_chunk \/ main_summary

SpecRun == InitRun /\ [][NextRun]_vars

-----------------------------------------------------------------------------
(* main() from the selection to the summary, over selections long enough for   *)
(* process_chunks_in_batches; process_chunk is reduced to the message it ends  *)
(* with, which decides what it returns.                                        *)

BatchThreshold == 45
BatchSize == 45
MaxLastBatch == 1

\* the lengths of the selected list: below, at and above the threshold, and three
\* batches
SelectedCounts == {1, BatchThreshold, BatchThreshold + 1, 2 * BatchSize + MaxLastBatch}

\* the messages process_chunk ends with; it returns True after "updated" only
ChunkOutcomes ==
    {"Missing text in metadata", "No fragment extracted", "Could not locate fragment",
     "No metadata to update", "Failed to update chunk", "updated"}

InitBatch ==
    /\ pdf_status = "ok"
    /\ pages = <<>>
    /\ sections_data = <<>>
    /\ sections_file = "ok"
    /\ metadata = <<>>
    /\ dry_run = FALSE
    /\ chunks_to_process \in {[k \in 1..n |-> k] : n \in SelectedCounts}
    /\ count \in {-1, Len(chunks_to_process)}
    /\ pc = "selected"
    /\ success_count = 0
    /\ total_count = 0
    /\ update_calls = 0
    /\ run = 1
    /\ metadata0 = <<>>
    /\ prev_run = NoneValue
    /\ report = NoneValue
    /\ run_log = <<>>
    /\ document_loads = 0
    /\ section_loads = 0
    /\ resource_reports = 0
    /\ NoLocate /\ NoPageLookup /\ NoSectionLookup /\ NoBatch /\ NoText /\ NoDetect /\ NoFormat /\ NoRetrieve /\ NoExtract

\* total_chunks // batch_size: the division rounded down
TotalBatchesFloor(total_chunks, size) == total_chunks \div size

\* (total_chunks + batch_size - 1) // batch_size
TotalBatches(total_chunks, size) == (total_chunks + size - 1) \div size

\* main() after the selection: the choice between the batches and the plain loop
main_branch ==
    /\ pc = "selected"
    /\ IF count = -1 /\ Len(chunks_to_process) > BatchThreshold
       THEN /\ pc' = "batches"
            /\ batch_size' = BatchSize
            /\ total_batches' = TotalBatches(Len(chunks_to_process), BatchSize)
            /\ UNCHANGED total_count
       ELSE /\ pc' = "processing"
            /\ total_count' = Len(chunks_to_process)
            /\ UNCHANGED << extractVars, total_batches, batch_size >>
    /\ success_count' = 0
    /\ UNCHANGED << extractVars, retrieveVars, formatVars, detectVars, textVars,
                    documentVars, locateVars, lookup, sectionVars, metadata, dry_run,
                    count, chunks_to_process, update_calls, run, metadata0, prev_run,
                    report, run_log, document_loads, section_loads, resource_reports,
                    batch_num, batch, batch_i, batch_success, processed, batch_log,
                    chunk_returned >>

\* process_chunks_in_batches: the head of one iteration of the loop over batches
batches_start_batch ==
    /\ pc = "batches"
    /\ batch_num < total_batches
    /\ LET total_chunks == Len(chunks_to_process)
           start_idx == batch_num * batch_size
           end_idx == IF start_idx + batch_size < total_chunks
                      THEN start_idx + batch_size ELSE total_chunks
       IN  /\ batch' = [start_idx |-> start_idx, end_idx |-> end_idx]
           /\ batch_log' = Append(batch_log, [start_idx |-> start_idx, end_idx |-> end_idx])
    /\ batch_i' = 0
    /\ batch_success' = 0
    /\ pc' = "batch"
    /\ UNCHANGED << extractVars, retrieveVars, formatVars, detectVars, textVars,
                    documentVars, locateVars, lookup, sectionVars, metadata, dry_run,
                    count, chunks_to_process, success_count, total_count, update_calls,
                    run, metadata0, prev_run, report, run_log, document_loads,
                    section_loads, resource_reports, total_batches, batch_num,
                    processed, batch_size, chunk_returned >>

\* a failure of process_chunk raised instead of returned: it ends the run
batches_process_chunk_raising ==
    /\ pc = "batch"
    /\ batch_i < batch.end_idx - batch.start_idx
    /\ \E outcome \in ChunkOutcomes :
          /\ batch_success' = batch_success + (IF outcome = "updated" THEN 1 ELSE 0)
          /\ success_count' = success_count + (IF outcome = "updated" THEN 1 ELSE 0)
          /\ chunk_returned' = [returned |-> outcome = "updated"]
          /\ pc' = (IF outcome = "updated" THEN pc ELSE "raised")
    /\ processed' = Append(processed, chunks_to_process[batch.start_idx + batch_i + 1])
    /\ batch_i' = batch_i + 1
    /\ UNCHANGED << extractVars, retrieveVars, formatVars, detectVars, textVars,
                    documentVars, locateVars, lookup, sectionVars, metadata, dry_run,
                    count, chunks_to_process, total_count, update_calls, run,
                    metadata0, prev_run, report, run_log, document_loads,
                    section_loads, resource_reports, total_batches, batch_num, batch,
                    batch_size, batch_log >>

\* process_chunks_in_batches: process_chunk on the next chunk of the batch
batches_process_chunk ==
    /\ pc = "batch"
    /\ batch_i < batch.end_idx - batch.start_idx
    /\ \E outcome \in ChunkOutcomes :
          /\ batch_success' = batch_success + (IF outcome = "updated" THEN 1 ELSE 0)
          /\ success_count' = success_count + (IF outcome = "updated" THEN 1 ELSE 0)
          /\ chunk_returned' = [returned |-> outcome = "updated"]
    /\ processed' = Append(processed, chunks_to_process[batch.start_idx + batch_i + 1])
    /\ batch_i' = batch_i + 1
    /\ UNCHANGED << extractVars, retrieveVars, formatVars, detectVars, textVars,
                    documentVars, locateVars, lookup, sectionVars, metadata, dry_run,
                    count, pc, chunks_to_process, total_count, update_calls, run,
                    metadata0, prev_run, report, run_log, document_loads,
                    section_loads, resource_reports, total_batches, batch_num, batch,
                    batch_size, batch_log >>

\* process_chunks_in_batches: the end of a batch
batches_end_batch ==
    /\ pc = "batch"
    /\ batch_i = batch.end_idx - batch.start_idx
    /\ batch_num' = batch_num + 1
    /\ pc' = "batches"
    /\ UNCHANGED << extractVars, retrieveVars, formatVars, detectVars, textVars,
                    documentVars, locateVars, lookup, sectionVars, metadata, dry_run,
                    count, chunks_to_process, success_count, total_count, update_calls,
                    run, metadata0, prev_run, report, run_log, document_loads,
                    section_loads, resource_reports, total_batches, batch, batch_i,
                    batch_success, processed, batch_size, batch_log, chunk_returned >>

\* process_chunks_in_batches returns to main(), which has nothing left to process
batches_return ==
    /\ pc = "batches"
    /\ batch_num >= total_batches
    /\ total_count' = Len(chunks_to_process)
    /\ chunks_to_process' = <<>>
    /\ pc' = "processing"
    /\ UNCHANGED << extractVars, retrieveVars, formatVars, detectVars, textVars,
                    documentVars, locateVars, lookup, sectionVars, metadata, dry_run,
                    count, success_count, update_calls, run, metadata0, prev_run,
                    report, run_log, document_loads, section_loads, resource_reports,
                    batchVars >>

\* one iteration of the plain loop of main()
main_loop_chunk ==
    /\ pc = "processing"
    /\ chunks_to_process # <<>>
    /\ \E outcome \in ChunkOutcomes :
          /\ success_count' = success_count + (IF outcome = "updated" THEN 1 ELSE 0)
          /\ chunk_returned' = [returned |-> outcome = "updated"]
    /\ processed' = Append(processed, Head(chunks_to_process))
    /\ chunks_to_process' = Tail(chunks_to_process)
    /\ UNCHANGED << extractVars, retrieveVars, formatVars, detectVars, textVars,
                    documentVars, locateVars, lookup, sectionVars, metadata, dry_run,
                    count, pc, total_count, update_calls, run, metadata0, prev_run,
                    report, run_log, document_loads, section_loads, resource_reports,
                    total_batches, batch_num, batch, batch_i, batch_success,
                    batch_size, batch_log >>

NextBatch ==
    \/ main_branch
    \/ batches_start_batch
    \/ batches_process_chunk
    \/ batches_end_batch
    \/ batches_return
    \/ main_loop_chunk
    \/ main_summary

SpecBatch == InitBatch /\ [][NextBatch]_vars

\* main() is one sequential process that runs until it returns
SpecBatchLive == SpecBatch /\ WF_vars(NextBatch)

-----------------------------------------------------------------------------
(* process_chunks_in_batches called on its own, with any batch size *)

MaxChunks == 7
MaxBatchSize == 3

InitBatches ==
    /\ pdf_status = "ok"
    /\ pages = <<>>
    /\ sections_data = <<>>
    /\ sections_file = "ok"
    /\ metadata = <<>>
    /\ dry_run = FALSE
    /\ chunks_to_process \in {[k \in 1..n |-> k] : n \in 0..MaxChunks}
    /\ count = -1
    /\ pc = "called"
    /\ success_count = 0
    /\ total_count = 0
    /\ update_calls = 0
    /\ run = 1
    /\ metadata0 = <<>>
    /\ prev_run = NoneValue
    /\ report = NoneValue
    /\ run_log = <<>>
    /\ document_loads = 0
    /\ section_loads = 0
    /\ resource_reports = 0
    /\ total_batches = 0
    /\ batch_num = 0
    /\ batch = NoneValue
    /\ batch_i = 0
    /\ batch_success = 0
    /\ processed = <<>>
    /\ batch_size \in 1..MaxBatchSize
    /\ batch_log = <<>>
    /\ chunk_returned = NoneValue
    /\ NoLocate /\ NoPageLookup /\ NoSectionLookup /\ NoText /\ NoDetect /\ NoFormat /\ NoRetrieve /\ NoExtract

\* process_chunks_in_batches up to its loop
batches_enter ==
    /\ pc = "called"
    /\ total_batches' = TotalBatches(Len(chunks_to_process), batch_size)
    /\ success_count' = 0
    /\ pc' = "batches"
    /\ UNCHANGED << extractVars, retrieveVars, formatVars, detectVars, textVars,
                    documentVars, locateVars, lookup, sectionVars, metadata, dry_run,
                    count, chunks_to_process, total_count, update_calls, run, metadata0,
                    prev_run, report, run_log, document_loads, section_loads,
                    resource_reports, batch_num, batch, batch_i, batch_success,
                    processed, batch_size, batch_log, chunk_returned >>

NextBatches ==
    \/ batches_enter
    \/ batches_start_batch
    \/ batches_process_chunk
    \/ batches_end_batch
    \/ batches_return

SpecBatches == InitBatches /\ [][NextBatches]_vars

-----------------------------------------------------------------------------
(* The text functions applied to a text *)

MaxTextLen == 6
TextChars == {"a", " ", "\n", "<", ">"}
Texts == UNION {[1..n -> TextChars] : n \in 0..MaxTextLen}

InitText ==
    /\ pdf_status = "ok"
    /\ pages = <<>>
    /\ sections_data = <<>>
    /\ sections_file = "ok"
    /\ raw_text \in Texts
    /\ cleanings = <<>>
    /\ longest = <<>>
    /\ NoLocate /\ NoPageLookup /\ NoSectionLookup /\ NoRun /\ NoBatch /\ NoDetect /\ NoFormat /\ NoRetrieve /\ NoExtract

\* clean_text on the text, then on what it returned
CleanText ==
    /\ Len(cleanings) < 2
    /\ cleanings' = Append(cleanings, clean_text(IF cleanings = <<>> THEN raw_text
                                                 ELSE cleanings[1]))
    /\ UNCHANGED << extractVars, retrieveVars, formatVars, detectVars, batchVars,
                    documentVars, locateVars, lookup, sectionVars, runVars,
                    raw_text, longest >>

SelectFragment ==
    /\ longest = <<>>
    /\ longest' = <<get_longest_text_fragment(raw_text)>>
    /\ UNCHANGED << extractVars, retrieveVars, formatVars, detectVars, batchVars,
                    documentVars, locateVars, lookup, sectionVars, runVars,
                    raw_text, cleanings >>

NextText == CleanText \/ SelectFragment

SpecText == InitText /\ [][NextText]_vars

-----------------------------------------------------------------------------
(* detect_companies applied to a query *)

MaxQueryPieces == 3

\* what queries are put together from: company names and tickers in several
\* cases, and characters that do or do not end a word
QueryPieces ==
    { <<"N", "V", "I", "D", "I", "A">>,
      <<"n", "v", "d", "a">>,
      <<"A", "M", "D">>,
      <<"I", "n", "t", "e", "l">>,
      <<"I", "N", "T", "C">>,
      <<"B", "r", "o", "a", "d", "c", "o", "m">>,
      <<"a", "v", "g", "o">>,
      <<" ">>,
      <<"'", "s">>,
      <<"_">>,
      <<"s">>,
      <<"2">> }

RECURSIVE Concat(_)
Concat(pieces) == IF pieces = <<>> THEN <<>> ELSE Head(pieces) \o Concat(Tail(pieces))

Queries == {Concat(pieces) : pieces \in UNION {[1..n -> QueryPieces] : n \in 0..MaxQueryPieces}}

InitDetect ==
    /\ pdf_status = "ok"
    /\ pages = <<>>
    /\ sections_data = <<>>
    /\ sections_file = "ok"
    /\ query \in Queries
    /\ detections = <<>>
    /\ NoLocate /\ NoPageLookup /\ NoSectionLookup /\ NoRun /\ NoBatch /\ NoText /\ NoFormat /\ NoRetrieve /\ NoExtract

DetectCompanies ==
    /\ detections = <<>>
    /\ detections' = <<detect_companies(query)>>
    /\ UNCHANGED << extractVars, retrieveVars, formatVars, textVars, batchVars, documentVars, locateVars, lookup, sectionVars,
                    runVars, query >>

NextDetect == DetectCompanies

SpecDetect == InitDetect /\ [][NextDetect]_vars

-----------------------------------------------------------------------------
(* format_section_info applied to a section pair *)

SectionSides == SectionRecords \cup {NoneValue}
SectionPairs ==
    {NoneValue, EmptyDict} \cup [main_section : SectionSides, subsection : SectionSides]

InitFormat ==
    /\ pdf_status = "ok"
    /\ pages = <<>>
    /\ sections_data = <<>>
    /\ sections_file = "ok"
    /\ section_pair \in SectionPairs
    /\ section_display = <<>>
    /\ NoLocate /\ NoPageLookup /\ NoSectionLookup /\ NoRun /\ NoBatch /\ NoText /\ NoDetect /\ NoRetrieve /\ NoExtract

FormatSectionInfo ==
    /\ section_display = <<>>
    /\ section_display' = <<format_section_info(section_pair)>>
    /\ UNCHANGED << extractVars, retrieveVars, detectVars, textVars, batchVars, documentVars, locateVars, lookup,
                    sectionVars, runVars, section_pair >>

NextFormat == FormatSectionInfo

SpecFormat == InitFormat /\ [][NextFormat]_vars

-----------------------------------------------------------------------------
(* Company-filtered retrieval: retrieve (graph.py) and industry_analysis_tool  *)
(* (tools.py)                                                                  *)

MaxQueryWords == 3

\* a retriever without a search_kwargs attribute
NoAttribute == [no_attribute |-> TRUE]

hasattr_search_kwargs == search_kwargs # NoAttribute

RetrieverKwargs ==
    { EmptyDict,
      [k |-> 4],
      [k |-> 4, filter |-> [user_id |-> "u"]] }

RetrieveWords ==
    { <<"N", "V", "I", "D", "I", "A">>, <<"A", "M", "D">>,
      <<"I", "n", "t", "e", "l">>, <<"s", "a", "l", "e", "s">> }

RECURSIVE JoinWords(_)
JoinWords(ws) ==
    IF ws = <<>> THEN <<>>
    ELSE IF Len(ws) = 1 THEN ws[1]
    ELSE ws[1] \o <<" ">> \o JoinWords(Tail(ws))

RetrieveQueries ==
    {JoinWords(ws) : ws \in UNION {[1..n -> RetrieveWords] : n \in 0..MaxQueryWords}}

IndustryCompanyFiles == <<"nvidia_10k.pdf", "amd_10k.pdf", "intel_10k.pdf", "broadcom_10k.pdf">>

\* the search kwargs of a per-company query
CompanyKwargs(kwargs, company_file) ==
    Merge(kwargs, [filter |-> [source_file |-> company_file], k |-> 2])

\* the search kwargs of the single-company query
SingleKwargs(kwargs, company_file) ==
    Merge(kwargs, [filter |-> [source_file |-> company_file]])

\* retriever.ainvoke(query, config) as the caller sees it
Invocation(step, company_file, kwargs, ok) ==
    [step |-> step, company_file |-> company_file, search_kwargs |-> kwargs, ok |-> ok]

InitRetrieve ==
    /\ pdf_status = "ok"
    /\ pages = <<>>
    /\ sections_data = <<>>
    /\ sections_file = "ok"
    /\ query \in RetrieveQueries
    /\ detections = <<>>
    /\ caller \in {"retrieve", "industry_analysis_tool"}
    /\ company_files = <<>>
    /\ search_kwargs0 \in RetrieverKwargs \cup {NoAttribute}
    /\ search_kwargs = search_kwargs0
    /\ original_kwargs = NoneValue
    /\ company_i = 0
    /\ retrieve_pc = "start"
    /\ invocations = <<>>
    /\ NoLocate /\ NoPageLookup /\ NoSectionLookup /\ NoRun /\ NoBatch /\ NoText /\ NoFormat /\ NoExtract

othersOfRetrieve == << formatVars, textVars, batchVars, documentVars, locateVars, lookup,
                       sectionVars, runVars, detectVars, caller, search_kwargs0 >>

\* retrieve: the companies of the query and the branch taken
retrieve_detect ==
    /\ caller = "retrieve"
    /\ retrieve_pc = "start"
    /\ \E files \in {detect_companies(query)} :
          /\ company_files' = files
          /\ retrieve_pc' = IF Len(files) > 1 THEN "loop"
                            ELSE IF Len(files) = 1 THEN "single"
                            ELSE "all"
    /\ company_i' = 1
    /\ UNCHANGED << extractVars, search_kwargs, original_kwargs, invocations >>
    /\ UNCHANGED othersOfRetrieve

\* industry_analysis_tool: the fixed company list
industry_start ==
    /\ caller = "industry_analysis_tool"
    /\ retrieve_pc = "start"
    /\ company_files' = IndustryCompanyFiles
    /\ company_i' = 1
    /\ retrieve_pc' = "loop"
    /\ UNCHANGED << extractVars, search_kwargs, original_kwargs, invocations >>
    /\ UNCHANGED othersOfRetrieve

\* one pass of the per-company loop: the try block and its except clause
company_iteration(ok) ==
    /\ retrieve_pc = "loop"
    /\ company_i <= Len(company_files)
    /\ LET company_file == company_files[company_i]
           saved == IF hasattr_search_kwargs THEN search_kwargs ELSE original_kwargs
           filtered == IF hasattr_search_kwargs
                       THEN CompanyKwargs(search_kwargs, company_file)
                       ELSE search_kwargs
       IN  /\ original_kwargs' = saved
           /\ invocations' = Append(invocations,
                                    Invocation("company", company_file, filtered, ok))
           /\ search_kwargs' = IF ok /\ hasattr_search_kwargs THEN saved ELSE filtered
    /\ company_i' = company_i + 1
    /\ UNCHANGED << extractVars, company_files, retrieve_pc >>
    /\ UNCHANGED othersOfRetrieve

retrieve_company ==
    /\ caller = "retrieve"
    /\ \E ok \in BOOLEAN : company_iteration(ok)

industry_company ==
    /\ caller = "industry_analysis_tool"
    /\ \E ok \in BOOLEAN : company_iteration(ok)

\* the loop is over: the caller formats all_results and returns
loop_end ==
    /\ retrieve_pc = "loop"
    /\ company_i > Len(company_files)
    /\ retrieve_pc' = "done"
    /\ UNCHANGED << extractVars, company_files, search_kwargs, original_kwargs, company_i, invocations >>
    /\ UNCHANGED othersOfRetrieve

\* retrieve, one company: the filtered query and its except clause up to the
\* fallback query
retrieve_single ==
    /\ retrieve_pc = "single"
    /\ \E ok \in BOOLEAN :
          LET company_file == company_files[1]
              saved == IF hasattr_search_kwargs THEN search_kwargs ELSE original_kwargs
              filtered == IF hasattr_search_kwargs
                          THEN SingleKwargs(search_kwargs, company_file)
                          ELSE search_kwargs
          IN  /\ original_kwargs' = saved
              /\ invocations' = Append(invocations,
                                       Invocation("single", company_file, filtered, ok))
              /\ search_kwargs' = IF ok /\ hasattr_search_kwargs THEN saved ELSE filtered
              /\ retrieve_pc' = IF ok THEN "done" ELSE "fallback"
    /\ UNCHANGED << extractVars, company_files, company_i >>
    /\ UNCHANGED othersOfRetrieve

\* retrieve, one company: the fallback query of the except clause
retrieve_fallback ==
    /\ retrieve_pc = "fallback"
    /\ \E ok \in BOOLEAN :
          /\ invocations' = Append(invocations,
                                   Invocation("fallback", NoneValue, search_kwargs, ok))
          /\ retrieve_pc' = IF ok THEN "done" ELSE "raised"
    /\ UNCHANGED << extractVars, company_files, search_kwargs, original_kwargs, company_i >>
    /\ UNCHANGED othersOfRetrieve

\* retrieve, no company: the query over all documents
retrieve_all ==
    /\ retrieve_pc = "all"
    /\ \E ok \in BOOLEAN :
          /\ invocations' = Append(invocations,
                                   Invocation("all", NoneValue, search_kwargs, ok))
          /\ retrieve_pc' = IF ok THEN "done" ELSE "raised"
    /\ UNCHANGED << extractVars, company_files, search_kwargs, original_kwargs, company_i >>
    /\ UNCHANGED othersOfRetrieve

NextRetrieve ==
    \/ retrieve_detect
    \/ industry_start
    \/ retrieve_company
    \/ industry_company
    \/ loop_end
    \/ retrieve_single
    \/ retrieve_fallback
    \/ retrieve_all

SpecRetrieve == InitRetrieve /\ [][NextRetrieve]_vars

-----------------------------------------------------------------------------
(* Section extraction with a progress cache: create_sections (section_graph.py) *)

ChunkSize == 45
MaxRestarts == 2
MaxChunkSections == 1

\* a file that does not exist, and one that json.load cannot read: a file opened
\* for writing is empty until the dump is written and the file closed
NoFile == [no_file |-> TRUE]
Unreadable == [unreadable |-> TRUE]
File(content) == [content |-> content]
Readable(file) == "content" \in DOMAIN file

\* the lengths of state.docs: no page, one chunk, two chunks, three chunks
DocCounts == {0, ChunkSize, ChunkSize + 1, 2 * ChunkSize + 1}

\* chunk_id = f"{i}-{i+chunk_size-1}"
ChunkId(i) == <<i, i + ChunkSize - 1>>

\* range(0, len(state.docs), chunk_size)
ChunkStarts(n) == {i \in 0..(n - 1) : i % ChunkSize = 0}

\* what the LLM may return for a chunk on a call: up to MaxChunkSections sections,
\* each told apart by the chunk and the call it comes from
Answers(chunk_id, call) ==
    {[returned |-> TRUE,
      sections |-> [k \in 1..n |-> [chunk |-> chunk_id, call |-> call, number |-> k]]] :
        n \in 0..MaxChunkSections}

\* the call of the LLM raises
Raised == [returned |-> FALSE, sections |-> <<>>]

InitExtract ==
    /\ pdf_status = "ok"
    /\ pages = <<>>
    /\ sections_data = <<>>
    /\ sections_file = "ok"
    /\ state_docs \in DocCounts
    /\ nosql_file = NoFile
    /\ cache_file = NoFile
    /\ all_sections = <<>>
    /\ processed_chunks = {}
    /\ chunk_i = 0
    /\ sections_out = <<>>
    /\ sections_pc = "start"
    /\ llm_log = <<>>
    /\ recorded = {}
    /\ restarts = 0
    /\ NoLocate /\ NoPageLookup /\ NoSectionLookup /\ NoRun /\ NoBatch /\ NoText /\ NoDetect /\ NoFormat /\ NoRetrieve

othersOfExtract == << retrieveVars, formatVars, detectVars, textVars, batchVars, documentVars,
                      locateVars, lookup, sectionVars, runVars, state_docs >>

\* the sections file is read, and the progress cache when there is no readable
\* sections file
create_sections_read ==
    /\ sections_pc = "start"
    /\ IF Readable(nosql_file)
       THEN /\ sections_out' = nosql_file.content
            /\ sections_pc' = "save_open"
            /\ UNCHANGED << all_sections, processed_chunks >>
       ELSE /\ IF Readable(cache_file)
               THEN /\ all_sections' = cache_file.content.sections
                    /\ processed_chunks' = cache_file.content.processed_chunks
               ELSE /\ all_sections' = <<>>
                    /\ processed_chunks' = {}
            /\ sections_pc' = "loop"
            /\ UNCHANGED sections_out
    /\ chunk_i' = 0
    /\ UNCHANGED << nosql_file, cache_file, llm_log, recorded, restarts >>
    /\ UNCHANGED othersOfExtract

\* a chunk that the cache names is skipped
loop_skip ==
    /\ sections_pc = "loop"
    /\ chunk_i < state_docs
    /\ ChunkId(chunk_i) \in processed_chunks
    /\ chunk_i' = chunk_i + ChunkSize
    /\ UNCHANGED << nosql_file, cache_file, all_sections, processed_chunks, sections_out,
                    sections_pc, llm_log, recorded, restarts >>
    /\ UNCHANGED othersOfExtract

\* the chunk is sent to the LLM, which returns sections or raises
loop_extract ==
    /\ sections_pc = "loop"
    /\ chunk_i < state_docs
    /\ ChunkId(chunk_i) \notin processed_chunks
    /\ \E answer \in Answers(ChunkId(chunk_i), Len(llm_log) + 1) \cup {Raised} :
          /\ llm_log' = Append(llm_log, [chunk_id |-> ChunkId(chunk_i),
                                         returned |-> answer.returned,
                                         sections |-> answer.sections])
          /\ IF ~answer.returned
             THEN /\ sections_pc' = "raised"
                  /\ UNCHANGED << all_sections, processed_chunks >>
             ELSE /\ all_sections' = all_sections \o answer.sections
                  /\ processed_chunks' = processed_chunks \cup {ChunkId(chunk_i)}
                  /\ sections_pc' = "cache_open"
    /\ UNCHANGED << nosql_file, cache_file, chunk_i, sections_out, recorded, restarts >>
    /\ UNCHANGED othersOfExtract

\* open(cache_file, "w")
cache_open ==
    /\ sections_pc = "cache_open"
    /\ cache_file' = Unreadable
    /\ sections_pc' = "cache_dump"
    /\ UNCHANGED << nosql_file, all_sections, processed_chunks, chunk_i, sections_out, llm_log,
                    recorded, restarts >>
    /\ UNCHANGED othersOfExtract

\* json.dump(cache_data, f) and the end of the with block
cache_dump ==
    /\ sections_pc = "cache_dump"
    /\ cache_file' = File([sections |-> all_sections, processed_chunks |-> processed_chunks])
    /\ recorded' = recorded \cup processed_chunks
    /\ chunk_i' = chunk_i + ChunkSize
    /\ sections_pc' = "loop"
    /\ UNCHANGED << nosql_file, all_sections, processed_chunks, sections_out, llm_log, restarts >>
    /\ UNCHANGED othersOfExtract

\* the loop is over
loop_done ==
    /\ sections_pc = "loop"
    /\ chunk_i >= state_docs
    /\ sections_out' = all_sections
    /\ sections_pc' = "final_open"
    /\ UNCHANGED << nosql_file, cache_file, all_sections, processed_chunks, chunk_i, llm_log,
                    recorded, restarts >>
    /\ UNCHANGED othersOfExtract

\* open(sections_file, "w"), after the loop and again before the return
sections_open ==
    /\ sections_pc \in {"final_open", "save_open"}
    /\ nosql_file' = Unreadable
    /\ sections_pc' = (IF sections_pc = "final_open" THEN "final_dump" ELSE "save_dump")
    /\ UNCHANGED << cache_file, all_sections, processed_chunks, chunk_i, sections_out, llm_log,
                    recorded, restarts >>
    /\ UNCHANGED othersOfExtract

\* json.dump(sections, f) and the end of the with block
sections_dump ==
    /\ sections_pc \in {"final_dump", "save_dump"}
    /\ nosql_file' = File(sections_out)
    /\ sections_pc' = (IF sections_pc = "final_dump" THEN "cleanup" ELSE "done")
    /\ UNCHANGED << cache_file, all_sections, processed_chunks, chunk_i, sections_out, llm_log,
                    recorded, restarts >>
    /\ UNCHANGED othersOfExtract

\* the cache is removed when it exists
cache_cleanup ==
    /\ sections_pc = "cleanup"
    /\ cache_file' = NoFile
    /\ recorded' = {}
    /\ sections_pc' = "save_open"
    /\ UNCHANGED << nosql_file, all_sections, processed_chunks, chunk_i, sections_out, llm_log,
                    restarts >>
    /\ UNCHANGED othersOfExtract

\* the process is killed anywhere in create_sections
crash ==
    /\ sections_pc \notin {"start", "done", "raised", "crashed"}
    /\ sections_pc' = "crashed"
    /\ UNCHANGED << nosql_file, cache_file, all_sections, processed_chunks, chunk_i, sections_out,
                    llm_log, recorded, restarts >>
    /\ UNCHANGED othersOfExtract

\* create_sections is started again in a new process
restart ==
    /\ sections_pc \in {"done", "raised", "crashed"}
    /\ restarts < MaxRestarts
    /\ restarts' = restarts + 1
    /\ all_sections' = <<>>
    /\ processed_chunks' = {}
    /\ chunk_i' = 0
    /\ sections_out' = <<>>
    /\ sections_pc' = "start"
    /\ UNCHANGED << nosql_file, cache_file, llm_log, recorded >>
    /\ UNCHANGED othersOfExtract

NextExtract ==
    \/ create_sections_read
    \/ loop_skip
    \/ loop_extract
    \/ cache_open
    \/ cache_dump
    \/ loop_done
    \/ sections_open
    \/ sections_dump
    \/ cache_cleanup
    \/ crash
    \/ restart

SpecExtract == InitExtract /\ [][NextExtract]_vars

-----------------------------------------------------------------------------
(* Properties of the fragment locator *)

\* needle is a contiguous substring of hay
Occurs(hay, needle) ==
    \E i \in 0..(Len(hay) - Len(needle)) : SubSeq(hay, i + 1, i + Len(needle)) = needle

\* needle occurs in hay at offset i and at no smaller offset
FirstOccurrenceAt(hay, needle, i) ==
    /\ i \in 0..(Len(hay) - Len(needle))
    /\ SubSeq(hay, i + 1, i + Len(needle)) = needle
    /\ \A j \in 0..(i - 1) : SubSeq(hay, j + 1, j + Len(needle)) # needle

Located == result # NoneValue /\ pdf_status = "ok"
FragmentWords == Split(clean_text(fragment))
WordPrefix(k) == Join(SubSeq(FragmentWords, 1, k))
IsExact(r) == Get(r, "found", FALSE) /\ Get(r, "exact_match", FALSE)
IsPartial(r) == Get(r, "found", FALSE) /\ Get(r, "partial_match", FALSE)

\* C1: a fragment whose normalized text is a contiguous substring of the normalized
\* document text is found as an exact match at the offset of its first occurrence.
C1_ExactMatchAtFirstOccurrence ==
    (Located /\ Occurs(CleanPdf, clean_text(fragment)))
        => /\ IsExact(result)
           /\ FirstOccurrenceAt(CleanPdf, clean_text(fragment), result.position)

\* an exact match of a non-empty fragment that occurs more than once, not at offset 0
C1_Witness ==
    /\ Located /\ IsExact(result)
    /\ clean_text(fragment) # <<>>
    /\ result.position > 0
    /\ \E j \in (result.position + 1)..Len(CleanPdf) :
          Span(CleanPdf, j + 1, j + Len(clean_text(fragment))) = clean_text(fragment)

\* C2: a partial match of k words is the longest matching word prefix: the first k
\* words occur in the document text, no longer prefix does, and position is the
\* first occurrence of the k-word prefix.
C2_LongestWordPrefix ==
    (Located /\ IsPartial(result))
        => LET k == result.matched_words
           IN  /\ k \in 1..Len(FragmentWords)
               /\ Occurs(CleanPdf, WordPrefix(k))
               /\ \A k2 \in (k + 1)..Len(FragmentWords) : ~Occurs(CleanPdf, WordPrefix(k2))
               /\ FirstOccurrenceAt(CleanPdf, WordPrefix(k), result.position)

\* a partial match of one word out of three: two longer prefixes were tried first
C2_Witness ==
    /\ Located /\ IsPartial(result)
    /\ result.matched_words = 1
    /\ Len(FragmentWords) = 3
    /\ result.position > 0

\* C3, as claimed: for every word count n >= 1, a fragment that does not occur but
\* whose first n - 1 words do is found as a partial match of n - 1 words.
C3_AllButLastWord_AnyCount ==
    (/\ Located
     /\ Len(FragmentWords) >= 1
     /\ ~Occurs(CleanPdf, clean_text(fragment))
     /\ Occurs(CleanPdf, WordPrefix(Len(FragmentWords) - 1)))
        => /\ IsPartial(result) /\ ~IsExact(result)
           /\ Get(result, "matched_words", -1) = Len(FragmentWords) - 1

\* C3, amended: the same for every word count n >= 2; a one-word fragment that does
\* not occur is not found.
C3_AllButLastWord ==
    /\ (/\ Located
        /\ Len(FragmentWords) >= 2
        /\ ~Occurs(CleanPdf, clean_text(fragment))
        /\ Occurs(CleanPdf, WordPrefix(Len(FragmentWords) - 1)))
           => /\ IsPartial(result) /\ ~IsExact(result)
              /\ Get(result, "matched_words", -1) = Len(FragmentWords) - 1
    /\ (/\ Located
        /\ Len(FragmentWords) = 1
        /\ ~Occurs(CleanPdf, clean_text(fragment)))
           => result = [found |-> FALSE]

\* a two-word fragment matched by its first word only
C3_Witness ==
    /\ Located /\ IsPartial(result)
    /\ Len(FragmentWords) = 2
    /\ result.matched_words = 1
    /\ ~Occurs(CleanPdf, clean_text(fragment))

-----------------------------------------------------------------------------
(* Properties of the page marker index *)

\* C5: for a fixed document text the page number is monotonic non-decreasing in the
\* offset.
C5_PageMonotonic ==
    lookup # NoneValue
        => \A a \in 0..Len(CleanPdf) :
              /\ a <= lookup.position
                    => extract_page_number(CleanPdf, a) <= lookup.page_number
              /\ a >= lookup.position
                    => extract_page_number(CleanPdf, a) >= lookup.page_number

\* an offset on the second page, before the end of a document whose first marker
\* does not yet precede offset 0
C5_Witness ==
    /\ lookup # NoneValue
    /\ lookup.page_number = 2
    /\ lookup.position < Len(CleanPdf)
    /\ extract_page_number(CleanPdf, 0) = 1

-----------------------------------------------------------------------------
(* Properties of the section table *)

Queried == page_query # 0

\* the section records a return value of find_section_for_page holds
Returned(info) ==
    IF "main_section" \in DOMAIN info \/ "subsection" \in DOMAIN info
    THEN {r \in {Get(info, "main_section", NoneValue), Get(info, "subsection", NoneValue)} :
             r # NoneValue}
    ELSE IF "start_page_number" \in DOMAIN info THEN {info} ELSE {}

SomeStartsAtOrBefore(page) ==
    \E i \in 1..Len(sections_data) : sections_data[i].start_page_number <= page

\* C6, as claimed: for every non-empty table and every page, pages before every
\* start page included, no returned subsection record starts after the queried page.
C6_NoLaterSubsection_AnyPage ==
    (Queried /\ sections_data # <<>>)
        => \A r \in Returned(section_info) :
              r.is_subsection => r.start_page_number <= page_query

\* C6, amended: that holds when some record starts at or before the queried page;
\* otherwise the table's first record is returned, whatever its kind.
C6_NoLaterSubsection ==
    /\ (Queried /\ SomeStartsAtOrBefore(page_query))
          => \A r \in Returned(section_info) :
                r.is_subsection => r.start_page_number <= page_query
    /\ (Queried /\ sections_data # <<>> /\ ~SomeStartsAtOrBefore(page_query))
          => section_info = sections_data[1]

\* a subsection is returned while another subsection of the table starts later
C6_Witness ==
    /\ Queried
    /\ SomeStartsAtOrBefore(page_query)
    /\ Truthy(Get(section_info, "subsection", NoneValue))
    /\ \E i \in 1..Len(sections_data) :
          /\ sections_data[i].is_subsection
          /\ sections_data[i].start_page_number > page_query

-----------------------------------------------------------------------------
(* Properties of an enrichment run *)

Processed == report # NoneValue

\* the fragment process_chunk selected from the text of the chunk it processed last
ReportFragment == get_longest_text_fragment(Get(metadata[report.chunk], "text", <<>>))
ReportWords == Split(clean_text(ReportFragment))

\* the update was handed to update_chunk_metadata
HandedToWriter == Processed /\ report.outcome \in {"updated", "Failed to update chunk"}

\* C4: when neither the normalized fragment nor any of its word prefixes occurs in
\* the document text, the locator returns found = false as a value and process_chunk
\* reports failure without calling the writer.
C4_NotFoundIsFailure ==
    (/\ Processed /\ pdf_status = "ok"
     /\ ReportFragment # <<>>
     /\ ~Occurs(CleanPdf, clean_text(ReportFragment))
     /\ \A k \in 1..Len(ReportWords) :
           ~Occurs(CleanPdf, Join(SubSeq(ReportWords, 1, k))))
        => /\ report.result = [found |-> FALSE]
           /\ ~report.success
           /\ ~report.update_called
           /\ metadata[report.chunk] = metadata0[report.chunk]
           /\ pc \in {"processing", "summary"}

\* a chunk whose fragment is nowhere in the document was processed and the run went on
C4_Witness ==
    /\ Processed /\ pdf_status = "ok"
    /\ report.outcome = "Could not locate fragment"
    /\ report.result = [found |-> FALSE]
    /\ pc = "summary"
    /\ total_count = 2

\* the chunk processed last was located on a page before every start page of a
\* non-empty section table
LocatedBeforeAllSections ==
    /\ HandedToWriter
    /\ sections_data # <<>>
    /\ \A i \in 1..Len(sections_data) :
          sections_data[i].start_page_number > report.result.page_number

\* C7: when no record starts at or before the page, the first record of the table is
\* returned and the update composed for the chunk names it: the section display and
\* the name and title fields of its kind are those of the first record.
C7_FallbackNamesFirstRecord ==
    LocatedBeforeAllSections
        => LET first == sections_data[1]
               updates == report.metadata_updates
           IN  /\ report.result.section = first
               /\ Get(updates, "hierarchical_section", "") = SectionLabel(first)
               /\ IF first.is_subsection
                  THEN /\ Get(updates, "subsection_name", "") = first.section_name
                       /\ Get(updates, "subsection_title", "") = first.section_title
                  ELSE /\ Get(updates, "main_section_name", "") = first.section_name
                       /\ Get(updates, "main_section_title", "") = first.section_title

SectionFields ==
    {"hierarchical_section", "main_section_name", "main_section_title",
     "subsection_name", "subsection_title"}

\* C8: no update handed to the writer holds a placeholder: the page number is a page,
\* and no section field is the empty string or "Unknown".
C8_NoPlaceholderWritten ==
    HandedToWriter
        => LET updates == report.metadata_updates
           IN  /\ "page_number" \in DOMAIN updates => updates.page_number >= 1
               /\ \A f \in SectionFields \cap DOMAIN updates :
                     updates[f] \notin {"", "Unknown"}

\* C9: a dry run makes no index.update call and leaves the stored metadata as it
\* was, and what process_chunk reports in a dry run (the match result, the metadata
\* fields) is what it computes for the same chunk, document and table in a live run.
C9_DryRunIsLiveWithoutWrite ==
    /\ (run >= 1 /\ dry_run) => (update_calls = 0 /\ metadata = metadata0)
    /\ (Processed /\ dry_run)
          => \A index_ok \in BOOLEAN :
                LET live == process_chunk(metadata0[report.chunk], index_ok, pdf_status,
                                          pages, sections_data, FALSE)
                IN  /\ report.result = live.result
                    /\ report.metadata_updates = live.metadata_updates
                    /\ ~report.update_called
                    /\ index_ok => report.success = live.success

\* a dry run reported the update of a located chunk, which the store does not hold
C9_Witness ==
    /\ Processed /\ dry_run
    /\ report.outcome = "updated"
    /\ "hierarchical_section" \in DOMAIN report.metadata_updates
    /\ "page_number" \notin DOMAIN metadata[report.chunk]
    /\ pc = "summary"

\* the previous run was live and enriched every chunk of the company
PreviousRunEnrichedAll ==
    /\ prev_run # NoneValue
    /\ ~prev_run.dry_run
    /\ prev_run.pc = "summary"
    /\ prev_run.success_count = Len(AllChunks)

FailedChunks == {run_log[i].chunk : i \in {j \in 1..Len(run_log) : ~run_log[j].success}}

\* C11: a chunk whose processing fails, whatever the reason (no text, no fragment,
\* fragment not located, write rejected), keeps the stored metadata it had when the
\* run started, and the skip-enriched filter of the next run takes it as a
\* candidate again.
C11_FailedChunkStaysCandidate ==
    /\ \A c \in FailedChunks :
          /\ metadata[c] = metadata0[c]
          /\ \E i \in 1..Len(Unenriched(AllChunks, metadata)) :
                Unenriched(AllChunks, metadata)[i] = c
    /\ (prev_run # NoneValue /\ pc # "idle")
          => \A c \in prev_run.failed :
                /\ \E i \in 1..Len(Unenriched(AllChunks, metadata0)) :
                      Unenriched(AllChunks, metadata0)[i] = c
                /\ \E selected \in select_chunks_for_processing(AllChunks, metadata0,
                                                                 -1, TRUE) :
                      \E i \in 1..Len(selected) : selected[i] = c

\* the write of a chunk whose fragment is in the document was rejected and the other
\* chunk was enriched in a live run, and the next run has selected the chunk that
\* failed, alone
C11_Witness ==
    /\ run = 2
    /\ prev_run # NoneValue
    /\ prev_run.failed = {"c2"}
    /\ prev_run.success_count = 1 /\ ~prev_run.dry_run
    /\ "page_number" \in DOMAIN metadata0["c1"]
    /\ pc = "processing"
    /\ chunks_to_process = <<"c2">>
    /\ total_count = 1
    /\ pdf_status = "ok"
    /\ metadata["c2"] = [text |-> <<"b", " ", " ", "a">>]

\* the source PDF or its section file cannot be loaded
ResourceUnavailable == pdf_status # "ok" \/ sections_file # "ok"

\* process_chunk went on to fragment selection for the i-th chunk of the run
FragmentSelected(i) == run_log[i].outcome # "Missing text in metadata"

\* C12: when the source PDF or its section file is missing or unreadable, the run
\* reports the condition once and no chunk goes through fragment selection,
\* location or write.
C12_UnavailableResourceIsFatal ==
    ResourceUnavailable
        => /\ resource_reports <= 1
           /\ \A i \in 1..Len(run_log) : ~FragmentSelected(i)
           /\ document_loads = 0
           /\ update_calls = 0

\* process_chunk handed the fragment of the i-th chunk of the run to the locator
LocatorCalled(i) ==
    run_log[i].outcome \notin {"Missing text in metadata", "No fragment extracted"}

\* C13: within one run over a source file that can be loaded, the document text is
\* built and the section table is loaded exactly once, however many chunks are
\* processed: never once per chunk.
C13_LoadedOncePerRun ==
    (pdf_status = "ok" /\ sections_file = "ok")
        => /\ document_loads <= 1
           /\ section_loads <= 1
           /\ (\E i \in 1..Len(run_log) : LocatorCalled(i))
                 => (document_loads = 1 /\ section_loads = 1)

-----------------------------------------------------------------------------
(* Properties of the loops of main() *)

-----------------------------------------------------------------------------
(* Properties of the writes of a run *)

\* the fields process_chunk composes for a chunk from its text at the start of the run
ComposedFields(c) ==
    create_metadata_from_result(
        find_fragment_in_pdf(get_longest_text_fragment(Get(metadata0[c], "text", <<>>)),
                             pdf_status, pages,
                             load_sections_data(sections_file, sections_data)))

\* the entries of the log of the run about chunk c
LogOf(c) == {i \in 1..Len(run_log) : run_log[i].chunk = c}

\* C15: in a run, process_chunk and with it the writer is called at most once for
\* a chunk, with all the composed fields in that one call; a chunk whose write
\* failed is counted as failed and is not written again in the run; so the stored
\* metadata of every chunk is what it was before the run or holds every composed
\* field.
C15_SingleCompleteWrite ==
    /\ \A c \in ChunkIds :
          /\ Cardinality(LogOf(c)) <= 1
          /\ \/ metadata[c] = metadata0[c]
             \/ /\ ComposedFields(c) # EmptyDict
                /\ metadata[c] = Merge(metadata0[c], ComposedFields(c))
          /\ \A i \in LogOf(c) :
                /\ run_log[i].update_called
                      => /\ ComposedFields(c) # EmptyDict
                         /\ \A k \in 1..Len(chunks_to_process) : chunks_to_process[k] # c
                /\ (run_log[i].update_called /\ ~run_log[i].success)
                      => /\ run_log[i].outcome = "Failed to update chunk"
                         /\ metadata[c] = metadata0[c]
    /\ update_calls = Cardinality({i \in 1..Len(run_log) : run_log[i].update_called})
    /\ success_count = Cardinality({i \in 1..Len(run_log) : run_log[i].success})
    /\ (Processed /\ report.update_called)
          => report.metadata_updates = ComposedFields(report.chunk)

\* a live run ended after one write that stored the page and all section fields of
\* a chunk and one write that was rejected
C15_Witness ==
    /\ pc = "summary"
    /\ update_calls = 2
    /\ success_count = 1
    /\ run_log[1].outcome = "Failed to update chunk"
    /\ run_log[2].outcome = "updated"
    /\ metadata[run_log[1].chunk] = metadata0[run_log[1].chunk]
    /\ DOMAIN metadata[run_log[2].chunk] =
          {"text", "page_number", "hierarchical_section", "main_section_name",
           "main_section_title", "subsection_name", "subsection_title"}

\* C16: when load_sections_data returns the empty list, a fragment that is located
\* still gets its page number, the update handed to the writer holds the page
\* number and no section field, a live write stores just that, and the match
\* result carries no error.
C16_NoTablePageOnly ==
    (/\ Processed
     /\ load_sections_data(sections_file, sections_data) = <<>>
     /\ report.result # NoneValue
     /\ report.result.found)
        => /\ "error" \notin DOMAIN report.result
           /\ "section" \notin DOMAIN report.result
           /\ report.result.page_number
                 = extract_page_number(CleanPdf, report.result.position)
           /\ report.result.page_number >= 1
           /\ HandedToWriter
           /\ report.metadata_updates = [page_number |-> report.result.page_number]
           /\ (report.update_called /\ report.success)
                 => metadata[report.chunk]
                       = Merge(metadata0[report.chunk],
                               [page_number |-> report.result.page_number])

\* the section file is missing and a live run stored page 2, and nothing else, for
\* a chunk found on the second page
C16_Witness ==
    /\ Processed
    /\ sections_file = "missing"
    /\ ~dry_run
    /\ report.outcome = "updated"
    /\ DOMAIN metadata[report.chunk] = {"text", "page_number"}
    /\ metadata[report.chunk].page_number = 2

-----------------------------------------------------------------------------
(* Properties of the text functions *)

\* C17: clean_text applied to what clean_text returned returns the same text, and
\* what clean_text returns neither starts nor ends with a whitespace character and
\* has no two whitespace characters in a row.
C17_CleanTextIdempotent ==
    /\ \A k \in 1..Len(cleanings) :
          LET t == cleanings[k]
          IN  /\ t # <<>> => (~IsSpace(t[1]) /\ ~IsSpace(t[Len(t)]))
              /\ \A i \in 1..(Len(t) - 1) : ~(IsSpace(t[i]) /\ IsSpace(t[i + 1]))
    /\ Len(cleanings) = 2 => cleanings[2] = cleanings[1]

\* clean_text was applied twice to a text with whitespace at both ends and a run of
\* a line break and a space inside
C17_Witness ==
    /\ Len(cleanings) = 2
    /\ raw_text = <<" ", "a", "\n", " ", "a", "\n">>
    /\ cleanings[1] = <<"a", " ", "a">>

\* the text holds a markup tag: a '<', at least one character other than '>', a '>'
HasTag(t) ==
    \E i, j \in 1..Len(t) :
        /\ j >= i + 2
        /\ t[i] = "<" /\ t[j] = ">"
        /\ \A k \in (i + 1)..(j - 1) : t[k] # ">"

\* the segments between the tags of the raw text, normalized
CleanSegments ==
    LET segments == SplitOnTags(raw_text, 1, <<>>)
    IN  [k \in 1..Len(segments) |-> clean_text(segments[k])]

\* C18: get_longest_text_fragment returns one of the normalized segments between
\* the markup tags of the text, no other normalized segment is longer than it and
\* none before it is as long; for a text without a tag it returns clean_text of
\* the text.
C18_LongestSegment ==
    longest # <<>>
        => /\ \E k \in 1..Len(CleanSegments) :
                 /\ longest[1] = CleanSegments[k]
                 /\ \A j \in 1..Len(CleanSegments) :
                       Len(CleanSegments[j]) <= Len(longest[1])
                 /\ \A j \in 1..(k - 1) : Len(CleanSegments[j]) < Len(longest[1])
           /\ ~HasTag(raw_text) => longest[1] = clean_text(raw_text)
           /\ HasTag(raw_text) => Len(CleanSegments) >= 2

\* the fragment selected from a text whose segment after the tag is the longer one
C18_Witness ==
    /\ raw_text = <<"a", "<", "a", ">", "a", "a">>
    /\ longest = << <<"a", "a">> >>

-----------------------------------------------------------------------------
(* Properties of the company detection *)

\* the companies: the source file of each and the name and ticker it goes by
Companies ==
    { [file |-> "nvidia_10k.pdf", names |-> {<<"n", "v", "i", "d", "i", "a">>, <<"n", "v", "d", "a">>}],
      [file |-> "amd_10k.pdf", names |-> {<<"a", "m", "d">>}],
      [file |-> "intel_10k.pdf", names |-> {<<"i", "n", "t", "e", "l">>, <<"i", "n", "t", "c">>}],
      [file |-> "broadcom_10k.pdf", names |-> {<<"b", "r", "o", "a", "d", "c", "o", "m">>, <<"a", "v", "g", "o">>}] }

\* the words of the query: the maximal runs of letters, digits and underscores
QueryWords ==
    LET inside == {i \in 1..Len(query) : IsWordChar(query[i])}
        starts == {i \in inside : i - 1 \notin inside}
        EndOf(i) == SetMin({j \in inside : j >= i /\ j + 1 \notin inside})
    IN  {SubSeq(query, i, EndOf(i)) : i \in starts}

\* the word is the name, whatever the case of its letters
IsName(word, name) ==
    /\ Len(word) = Len(name)
    /\ \A k \in 1..Len(name) :
          \/ word[k] = name[k]
          \/ \E i \in 1..26 : LowerCase[i] = name[k] /\ UpperCase[i] = word[k]

\* the companies a word of the query names
Named ==
    LET words == QueryWords
    IN  {c \in Companies : \E w \in words : \E n \in c.names : IsName(w, n)}

\* C19: detect_companies returns the source files of exactly the companies whose
\* name or ticker is a whole word of the query, in any case of letters, each file
\* once, and the empty list when the query names no company.
C19_DetectsNamedCompanies ==
    detections # <<>>
        => LET files == detections[1]
               named == Named
           IN  /\ {files[i] : i \in 1..Len(files)} = {c.file : c \in named}
               /\ \A i, j \in 1..Len(files) : i # j => files[i] # files[j]
               /\ named = {} => files = <<>>

\* a query with the name and the ticker of one company gets the file of that
\* company once
C19_Witness ==
    /\ query = <<"N", "V", "I", "D", "I", "A", " ", "n", "v", "d", "a">>
    /\ detections = << <<"nvidia_10k.pdf">> >>

-----------------------------------------------------------------------------
(* Properties of the page lookup *)

\* the marker of page n as it stands in the document text
MarkerOf(n) == MarkerPrefix \o ToStr(n) \o MarkerSuffix

\* the markers that lie entirely before the offset: <<start, n>> for the marker of
\* page n at the 0-based offset start
MarkersBefore(offset) ==
    {m \in (0..offset) \X (1..Len(pages)) :
        /\ m[1] + Len(MarkerOf(m[2])) <= offset
        /\ SubSeq(CleanPdf, m[1] + 1, m[1] + Len(MarkerOf(m[2]))) = MarkerOf(m[2])}

\* C20: extract_page_number(text, offset) returns the number of the last marker
\* '--- PAGE N ---' that lies entirely before the offset, and 1 when no complete
\* marker precedes the offset, as at every offset inside the first marker.
C20_LastMarkerBeforeOffset ==
    lookup # NoneValue
        => LET before == MarkersBefore(lookup.position)
           IN  /\ before = {} => lookup.page_number = 1
               /\ before # {}
                     => \E m \in before :
                           /\ \A other \in before : other[1] <= m[1]
                           /\ lookup.page_number = m[2]
               /\ lookup.position < Len(MarkerOf(1)) => before = {}

\* the offset is the end of the marker of page 2, the first offset that marker
\* lies entirely before
C20_Witness ==
    /\ lookup # NoneValue
    /\ lookup.page_number = 2
    /\ <<lookup.position - Len(MarkerOf(2)), 2>> \in MarkersBefore(lookup.position)
    /\ extract_page_number(CleanPdf, lookup.position - 1) = 1

-----------------------------------------------------------------------------
(* Properties of the section pair *)

\* the records of one kind that start at or before the page
StartedBy(page, subsection) ==
    {i \in 1..Len(sections_data) :
        /\ sections_data[i].is_subsection = subsection
        /\ sections_data[i].start_page_number <= page}

\* the record is one of the latest started of its kind, or null when there is none
LatestOf(record, started) ==
    IF started = {} THEN record = NoneValue
    ELSE \E i \in started :
            /\ record = sections_data[i]
            /\ \A j \in started : sections_data[j].start_page_number
                                       <= sections_data[i].start_page_number

\* C21: when some record starts at or before the page P, find_section_for_page
\* returns a pair; its main_section is a non-subsection record and its subsection
\* a subsection record, each with the largest start page among the records of its
\* kind that start at or before P, each null when no record of its kind does; the
\* sides are chosen independently of each other.
C21_LatestOfEachKind ==
    (Queried /\ SomeStartsAtOrBefore(page_query))
        => /\ DOMAIN section_info = {"main_section", "subsection"}
           /\ LatestOf(section_info.main_section, StartedBy(page_query, FALSE))
           /\ LatestOf(section_info.subsection, StartedBy(page_query, TRUE))

\* both sides are returned for a page after both starts, and the subsection starts
\* before the main section
C21_Witness ==
    /\ Queried
    /\ Truthy(Get(section_info, "main_section", NoneValue))
    /\ Truthy(Get(section_info, "subsection", NoneValue))
    /\ section_info.subsection.start_page_number
          < section_info.main_section.start_page_number
    /\ section_info.main_section.start_page_number < page_query

-----------------------------------------------------------------------------
(* Properties of the rejections of process_chunk *)

\* the text of chunk c, which no run changes
TextOf(c) == Get(metadata0[c], "text", <<>>)

\* C22: process_chunk returns failure, and raises nothing, for a chunk without
\* text and for a chunk whose selected fragment is empty; for such a chunk the
\* locator is not called, so no document is read, and the writer is not called.
C22_EmptyRejected ==
    /\ \A i \in 1..Len(run_log) :
          LET c == run_log[i].chunk
          IN  (TextOf(c) = <<>> \/ get_longest_text_fragment(TextOf(c)) = <<>>)
                 => /\ ~run_log[i].success
                    /\ ~run_log[i].update_called
                    /\ ~LocatorCalled(i)
                    /\ run_log[i].outcome = (IF TextOf(c) = <<>>
                                             THEN "Missing text in metadata"
                                             ELSE "No fragment extracted")
                    /\ metadata[c] = metadata0[c]
    /\ document_loads <= Cardinality({i \in 1..Len(run_log) : LocatorCalled(i)})
    /\ section_loads <= Cardinality({i \in 1..Len(run_log) : LocatorCalled(i)})
    /\ (Processed /\ report.result = NoneValue)
          => (~report.success /\ ~report.update_called)

\* a live run over a document that can be read ended after a chunk without text
\* and a chunk of markup only, and read nothing
C22_Witness ==
    /\ pc = "summary"
    /\ ~dry_run
    /\ pdf_status = "ok"
    /\ {run_log[i].outcome : i \in 1..Len(run_log)}
          = {"Missing text in metadata", "No fragment extracted"}
    /\ document_loads = 0
    /\ section_loads = 0
    /\ update_calls = 0
    /\ success_count = 0

-----------------------------------------------------------------------------
(* Properties of the context of a match *)

\* the smaller of two numbers
Least(a, b) == IF a < b THEN a ELSE b

\* the string the locator searched for when it found the match
Searched == IF IsExact(result) THEN clean_text(fragment)
            ELSE WordPrefix(result.matched_words)

\* C23: in a found result, position is an offset of the normalized document text
\* at which the searched string (the fragment for an exact match, the word prefix
\* for a partial one) stands, matched is that string, before and after are the
\* text next to the match, 1000 characters each for an exact match and 500 for a
\* partial one, fewer only where the document starts or ends sooner, and context
\* is before, matched and after put together.
C23_ContextAroundMatch ==
    (Located /\ result.found)
        => LET doc == CleanPdf
               window == IF IsExact(result) THEN 1000 ELSE 500
               start == result.position
               end == start + Len(Searched)
           IN  /\ IsExact(result) # IsPartial(result)
               /\ start \in 0..(Len(doc) - Len(Searched))
               /\ SubSeq(doc, start + 1, end) = Searched
               /\ result.matched = Searched
               /\ Len(result.before) = Least(window, start)
               /\ result.before = SubSeq(doc, start - Len(result.before) + 1, start)
               /\ Len(result.after) = Least(window, Len(doc) - end)
               /\ result.after = SubSeq(doc, end + 1, end + Len(result.after))
               /\ result.context = result.before \o result.matched \o result.after

\* a partial match with more than 500 characters before it and after it, whose
\* context is 500 characters on each side
C23_Witness ==
    /\ Located
    /\ IsPartial(result)
    /\ result.position > 500
    /\ Len(CleanPdf) - (result.position + Len(result.matched)) > 500
    /\ Len(result.before) = 500
    /\ Len(result.after) = 500
    /\ Len(result.context) = 1000 + Len(result.matched)

-----------------------------------------------------------------------------
(* Properties of format_section_info *)

Formatted == section_display # <<>>

\* the sides of the pair that are there, the main section first
PresentSides ==
    IF section_pair \in {NoneValue, EmptyDict} THEN <<>>
    ELSE LET Present(side) == side # NoneValue
         IN  SelectSeq(<<section_pair.main_section, section_pair.subsection>>, Present)

Rendered(side) ==
    IF side.section_name = side.section_title THEN side.section_name
    ELSE side.section_name \o " (" \o side.section_title \o ")"

\* C24: format_section_info renders a pair as its present sides joined by " > ",
\* the main section first; a side is "name (title)" when its name and title differ
\* and just "name" when they are equal; a null or empty pair, and a pair with
\* neither side, render as "Unknown".
C24_HierarchicalDisplay ==
    Formatted
        => LET out == section_display[1]
               sides == PresentSides
           IN  CASE Len(sides) = 0 -> out = "Unknown"
                 [] Len(sides) = 1 -> out = Rendered(sides[1])
                 [] Len(sides) = 2 -> out = Rendered(sides[1]) \o " > " \o Rendered(sides[2])

\* a pair with both sides, the main section's name and title different and the
\* subsection's equal, rendered with the main section first
C24_Witness ==
    /\ Formatted
    /\ section_pair = [main_section |-> Part("Item 1", "Business", 1),
                       subsection |-> Sub("Item 7", "Item 7", 2)]
    /\ section_display[1] = "Item 1 (Business) > Item 7"

-----------------------------------------------------------------------------
(* Properties of the company-filtered retrieval *)

\* the search kwargs hold a filter on the source file
HasCompanyFilter(kwargs) ==
    /\ kwargs # NoAttribute
    /\ "filter" \in DOMAIN kwargs
    /\ "source_file" \in DOMAIN kwargs["filter"]

InvocationsOf(step) ==
    LET IsStep(inv) == inv.step = step
    IN  SelectSeq(invocations, IsStep)

\* C25: in retrieve, when the filtered query of a single detected company raises,
\* the fallback query is unfiltered: the retriever's search_kwargs hold no company
\* filter when the fallback query is issued.
C25_FallbackUnfiltered ==
    \A n \in 1..Len(invocations) :
        invocations[n].step = "fallback"
            => ~HasCompanyFilter(invocations[n].search_kwargs)

\* the per-company loop of the caller is over
LoopOver == retrieve_pc = "done" /\ InvocationsOf("company") # <<>>

\* C26: when the per-company loop of retrieve or of industry_analysis_tool is over,
\* retriever.search_kwargs is what it was before the loop, whichever of the
\* per-company queries succeeded or failed, and the query of each company was
\* issued with the original kwargs plus the filter of that company and k = 2.
C26_KwargsRestored ==
    (LoopOver /\ hasattr_search_kwargs)
        => /\ search_kwargs = search_kwargs0
           /\ \A n \in 1..Len(invocations) :
                 invocations[n].search_kwargs
                     = [key \in DOMAIN search_kwargs0 \cup {"filter", "k"} |->
                          IF key = "filter"
                             THEN [source_file |-> invocations[n].company_file]
                          ELSE IF key = "k" THEN 2
                          ELSE search_kwargs0[key]]

-----------------------------------------------------------------------------
(* Properties of the fields composed for a located fragment *)

\* the locator found the fragment of the chunk process_chunk processed last
ReportLocated == Processed /\ report.result # NoneValue /\ report.result.found

\* C27: whenever find_fragment_in_pdf reports found = true, the result carries a
\* page_number of at least 1, so create_metadata_from_result does not return an
\* empty update for a located fragment, and process_chunk never fails with
\* "No metadata to update".
C27_LocatedHasPage ==
    /\ ReportLocated
          => /\ "page_number" \in DOMAIN report.result
             /\ report.result.page_number >= 1
             /\ report.metadata_updates # EmptyDict
             /\ report.metadata_updates.page_number = report.result.page_number
    /\ Processed => report.outcome # "No metadata to update"
    /\ \A i \in 1..Len(run_log) : run_log[i].outcome # "No metadata to update"

\* a chunk located in a document without a section table, whose update is the
\* page number alone
C27_Witness ==
    /\ ReportLocated
    /\ load_sections_data(sections_file, sections_data) = <<>>
    /\ "section" \notin DOMAIN report.result
    /\ report.metadata_updates = [page_number |-> 2]
    /\ report.outcome = "updated"

-----------------------------------------------------------------------------
(* Properties of process_chunks_in_batches *)

\* the number of chunks handed to process_chunks_in_batches
Handed == IF pc = "processing" THEN total_count ELSE Len(chunks_to_process)

BatchesReturned == pc = "processing" /\ batch_size > 0

\* the least number of batches of at most size chunks that hold n chunks
Ceiling(n, size) == CHOOSE q \in 0..n : q * size >= n /\ (q = 0 \/ (q - 1) * size < n)

\* the chunks are processed one by one in the order of the list
ProcessedInOrder ==
    /\ Len(processed) <= Handed
    /\ \A k \in 1..Len(processed) : processed[k] = k

\* the batches started so far follow each other from the first chunk on, and each
\* holds batch_size chunks, or what is left for the last one
BatchesConsecutive ==
    \A j \in 1..Len(batch_log) :
        /\ batch_log[j].start_idx = (IF j = 1 THEN 0 ELSE batch_log[j - 1].end_idx)
        /\ batch_log[j].end_idx - batch_log[j].start_idx \in 1..batch_size
        /\ batch_log[j].end_idx - batch_log[j].start_idx < batch_size
              => (j = Len(batch_log) /\ batch_log[j].end_idx = Handed)

\* a step that calls process_chunk adds one to the number of successes when the
\* call returned true, and nothing else changes that number
CountsTrueReturns ==
    IF processed' # processed
    THEN success_count' = success_count + (IF chunk_returned'.returned THEN 1 ELSE 0)
    ELSE success_count' = success_count \/ pc = "called"

\* C28: process_chunks_in_batches with batch size b processes every chunk once, in
\* list order, in ceil(n/b) consecutive batches of at most b chunks of which only
\* the last may be shorter; what it returns is the number of chunks for which
\* process_chunk returned true, between 0 and n, so that the failed count n minus
\* that is not negative.
C28_EveryChunkOnceInBatches ==
    /\ [](ProcessedInOrder /\ BatchesConsecutive /\ success_count \in 0..Len(processed))
    /\ [](BatchesReturned
             => /\ Len(processed) = total_count
                /\ Len(batch_log) = Ceiling(total_count, batch_size)
                /\ success_count \in 0..total_count
                /\ total_count - success_count \in 0..total_count)
    /\ [][CountsTrueReturns]_vars

\* seven chunks in batches of three: two full batches and a last one of one
\* chunk, with some calls returning true and some false
C28_Witness ==
    /\ BatchesReturned
    /\ batch_size = 3
    /\ processed = <<1, 2, 3, 4, 5, 6, 7>>
    /\ batch_log = << [start_idx |-> 0, end_idx |-> 3], [start_idx |-> 3, end_idx |-> 6],
                      [start_idx |-> 6, end_idx |-> 7] >>
    /\ success_count = 4

-----------------------------------------------------------------------------
(* Properties of the word count of a partial match *)

\* C29: a partial match has matched fewer words than the fragment holds, and at
\* least one: the words of the normalized fragment joined by single spaces are the
\* normalized fragment, which the exact test did not find, so the loop cannot
\* match at the full word count.
C29_PartialIsProperPrefix ==
    (Located /\ IsPartial(result))
        => LET words == FragmentWords
           IN  /\ Join(words) = clean_text(fragment)
               /\ ~Occurs(CleanPdf, Join(words))
               /\ result.matched_words >= 1
               /\ result.matched_words < Len(words)

\* a partial match of the first two words of a fragment of three words
C29_Witness ==
    /\ Located /\ IsPartial(result)
    /\ Len(FragmentWords) = 3
    /\ result.matched_words = 2
    /\ result.matched = <<"a", " ", "b">>

-----------------------------------------------------------------------------
(* Properties of the section extraction *)

\* the chunk ids of the document, in the order of the loop
DocumentChunkIds == {ChunkId(i) : i \in ChunkStarts(state_docs)}

\* the calls of the LLM that returned sections for the chunk
ReturnsFor(chunk_id) ==
    {n \in 1..Len(llm_log) : llm_log[n].chunk_id = chunk_id /\ llm_log[n].returned}

\* the sections of the list that come from the chunk
FromChunk(list, chunk_id) ==
    LET OfChunk(s) == s.chunk = chunk_id
    IN  SelectSeq(list, OfChunk)

\* the list holds, for each of the chunk ids and for no other, the sections of one
\* call that returned for it, the chunks in the order of the document
OneAnswerEach(list, ids) ==
    /\ \A k \in 1..Len(list) : list[k].chunk \in ids
    /\ \A id \in ids : \E n \in ReturnsFor(id) : FromChunk(list, id) = llm_log[n].sections
    /\ \A j, k \in 1..Len(list) : j < k => list[j].chunk[1] <= list[k].chunk[1]

\* a step that sends a chunk to the LLM sends one that the progress cache has not
\* recorded
SendsUnrecordedOnly ==
    llm_log' # llm_log => llm_log'[Len(llm_log')].chunk_id \notin recorded

CacheIsAnswersOfRecorded ==
    Readable(cache_file)
        => /\ cache_file.content.processed_chunks \subseteq DocumentChunkIds
           /\ OneAnswerEach(cache_file.content.sections, cache_file.content.processed_chunks)

FinalAfterEveryChunk ==
    Readable(nosql_file) => OneAnswerEach(nosql_file.content, DocumentChunkIds)

\* C30: the section extraction resumes without loss or duplication: whatever
\* crashes and restarts happen, a chunk id that the progress cache has recorded is
\* not sent to the LLM again, the sections of the cache are the sections returned
\* for the chunk ids it records, each once, and the sections file is written only
\* after every chunk id was processed.
C30_ResumableExtraction ==
    /\ [][SendsUnrecordedOnly]_vars
    /\ []CacheIsAnswersOfRecorded
    /\ []FinalAfterEveryChunk

=============================================================================
